---- MODULE Spec2Model ----
(***************************************************************************)
(* Trading-signal engine of the dutchess2 bot: the SMA, RSI and MACD       *)
(* strategies, the trading engine with its risk manager and performance    *)
(* ledger, and the event loop that interleaves price ticks, parameter      *)
(* updates and the completions of pending order executions.                *)
(*                                                                         *)
(* JavaScript numbers are modelled as exact rationals [n, d]; the value    *)
(* null/undefined is the record NULL.  One step of the model is one        *)
(* macrotask of the Node.js event loop together with the microtasks        *)
(* (promise continuations) it leaves behind.                               *)
(***************************************************************************)
EXTENDS Integers, Sequences, FiniteSets, TLC

VARIABLES
    running,     \* the strategy started through the strategy manager
    active,      \* StrategyManager.activeStrategies: the names of the started strategies
    selectedCrypto, \* index.js selectedCrypto: the product whose ticks reach the strategies
    sma,         \* SimpleMovingAverageStrategy instance
    rsi,         \* RSIStrategy instance
    macd,        \* MACDStrategy instance
    portfolio,   \* TradingEngine.portfolio
    perf,        \* TradingEngine.performanceData
    positions,   \* TradingEngine.positions (ledger positions per product)
    activeOrders,\* TradingEngine.activeOrders (number of tracked orders)
    market,      \* CoinbaseService.lastPrices of the selected product
    pending,     \* order executions / portfolio syncs awaiting the network
    published,   \* 'signal' and 'crossover' events emitted over Socket.IO
    nextId,      \* number of trade signals generated so far
    ticks,       \* number of price ticks delivered so far
    updates,     \* number of parameter updates so far
    livePlaced,  \* per strategy: calls of coinbaseService.place*Order
    execOk,      \* per strategy: successful engine calls since its trades reset
    sigLog,      \* per strategy: trade signals (type, price) since its position reset
    now,         \* the latest reading of the clock (new Date())
    last         \* description of the step that led to the current state

vars == <<running, active, selectedCrypto, sma, rsi, macd, portfolio, perf, positions, activeOrders,
          market, pending, published, nextId, ticks, updates, livePlaced,
          execOk, sigLog, now, last>>

-----------------------------------------------------------------------------
(* Exact arithmetic on JavaScript numbers *)

RECURSIVE Gcd(_, _)
Gcd(a, b) == IF b = 0 THEN a ELSE Gcd(b, a % b)

Abs(x) == IF x < 0 THEN -x ELSE x

\* null / undefined
NULL == [n |-> 0, d |-> 0]

\* the rational n/d in lowest terms, d > 0
Rat(n, d) ==
    LET g == Gcd(Abs(n), Abs(d))
        s == IF d < 0 THEN -1 ELSE 1
    IN  [n |-> s * (n \div g), d |-> (s * d) \div g]

R(k) == [n |-> k, d |-> 1]
Zero == R(0)

RAdd(x, y) == Rat(x.n * y.d + y.n * x.d, x.d * y.d)
RSub(x, y) == Rat(x.n * y.d - y.n * x.d, x.d * y.d)
RMul(x, y) == Rat(x.n * y.n, x.d * y.d)
\* x / y for y # 0
RDiv(x, y) == Rat(x.n * y.d, x.d * y.n)
RLt(x, y)  == x.n * y.d < y.n * x.d
RLe(x, y)  == x.n * y.d <= y.n * x.d
RAbs(x)    == [n |-> Abs(x.n), d |-> x.d]
RMin(x, y) == IF RLe(x, y) THEN x ELSE y

\* JavaScript truthiness of a number-or-null: null, undefined and 0 are falsy
Truthy(x) == x # NULL /\ x.n # 0

\* x || y
OrElse(x, y) == IF Truthy(x) THEN x ELSE y

RECURSIVE SumSeq(_)
SumSeq(s) == IF s = <<>> THEN Zero ELSE RAdd(Head(s), SumSeq(Tail(s)))

\* Array.prototype.slice(-k) for k > 0
LastK(s, k) == IF Len(s) <= k THEN s ELSE SubSeq(s, Len(s) - k + 1, Len(s))

-----------------------------------------------------------------------------
(* Bounds and input sets of the model *)

\* number of price ticks delivered in one behaviour
MaxTicks == 5

\* number of updateParameters calls in one behaviour
MaxUpdates == 1

Strategies == {"sma", "rsi", "macd"}
Modes == {"stopped", "simulation", "active"}

\* the product selected for strategy execution
BTC == "BTC-USD"
Products == {BTC}

\* prices of the feed; the RSI needs three levels to reach its thresholds
Prices == {R(96), R(100), R(101)}
FeedPrices(s) == IF s = "rsi" THEN Prices ELSE {R(96), R(101)}

\* the base currency of a product id: productId.split('-')[0]
CryptoSymbol(productId) ==
    CASE productId = "BTC-USD" -> "BTC"
      [] productId = "ETH-USD" -> "ETH"
      [] OTHER -> productId

Currencies == {"USD", "USDC", "BTC"}

\* TradingEngine.loadPortfolio, error branch: every balance 0
DefaultPortfolio == [c \in Currencies |-> Zero]

\* portfolios the exchange account can report (a currency without an account
\* has no entry, which reads as undefined)
Portfolios ==
    { DefaultPortfolio,
      [c \in Currencies |-> IF c = "USD" THEN R(1000)
                            ELSE IF c = "BTC" THEN R(1) ELSE Zero],
      [c \in Currencies |-> IF c = "USDC" THEN R(1000) ELSE NULL] }

\* a < b on JavaScript numbers: false when either side is undefined (NaN)
JsLt(a, b) == a # NULL /\ b # NULL /\ RLt(a, b)

\* arithmetic value of null
Num(x) == IF x = NULL THEN Zero ELSE x

-----------------------------------------------------------------------------
(* Movement filter, shared by the SMA and MACD strategies *)

ShouldGenerateCrossoverSignal(lastSignalPrice, currentPrice, tradeAmount, minMovementPercent) ==
    IF Truthy(lastSignalPrice)
    THEN LET priceMovement      == RAbs(RSub(currentPrice, lastSignalPrice))
             tradeValueMovement == RMul(priceMovement, tradeAmount)
             baseTradeValue     == RMul(lastSignalPrice, tradeAmount)
         IN  \* 0/0 is NaN, and NaN >= x is false
             IF baseTradeValue.n = 0 THEN FALSE
             ELSE RLe(minMovementPercent, RDiv(tradeValueMovement, baseTradeValue))
    ELSE TRUE

-----------------------------------------------------------------------------
(* SimpleMovingAverageStrategy *)

SmaInit(period, mode, engine) ==
    [ period |-> period,
      minMovementPercent |-> Rat(5, 1000),
      tradeAmount |-> Rat(1, 100),
      mode |-> mode,
      tradingEngine |-> engine,
      priceHistories |-> [p \in Products |-> <<>>],
      smas |-> [p \in Products |-> NULL],
      lastPrices |-> [p \in Products |-> NULL],
      lastSmas |-> [p \in Products |-> NULL],
      positions |-> [p \in Products |-> "none"],
      initialBuyGenerated |-> [p \in Products |-> FALSE],
      lastSignalPrice |-> [p \in Products |-> NULL],
      entryPrices |-> [p \in Products |-> NULL],
      trades |-> <<>> ]

SmaCalculateSMA(st, p) ==
    IF Len(st.priceHistories[p]) >= st.period
    THEN [st EXCEPT !.smas[p] =
            RDiv(SumSeq(LastK(st.priceHistories[p], st.period)), R(st.period))]
    ELSE [st EXCEPT !.smas[p] = NULL]

SmaShould(st, p, currentPrice) ==
    ShouldGenerateCrossoverSignal(st.lastSignalPrice[p], currentPrice,
                                  st.tradeAmount, st.minMovementPercent)

SmaEmitCrossoverSignal(st, p, price) ==
    [st EXCEPT !.lastSignalPrice[p] = price]

\* faulty variant: the position flag is left to the completion of the execution
SmaGenerateBuySignalLate(st, p, price) ==
    [st EXCEPT !.lastSignalPrice[p] = price, !.entryPrices[p] = price]

\* synchronous part of generateBuySignal (up to its first await)
SmaGenerateBuySignal(st, p, price) ==
    [st EXCEPT !.lastSignalPrice[p] = price,
               !.positions[p] = "long",
               !.entryPrices[p] = price]

\* synchronous part of generateSellSignal
SmaGenerateSellSignal(st, p, price) ==
    [st EXCEPT !.lastSignalPrice[p] = price,
               !.positions[p] = "none",
               !.entryPrices[p] = NULL]

CrossoverEv(dir, price) == [kind |-> "crossover", type |-> dir, price |-> price]
\* a trade signal; exec: whether the trade execution is invoked for it;
\* prevPos: the strategy's position before the signal
SignalEv(type, price, prevPos) ==
    [kind |-> "signal", type |-> type, price |-> price, prevPos |-> prevPos,
     exec |-> TRUE]

\* the mode gate of the trade signals
TradingMode(mode) == mode = "simulation" \/ mode = "active"

\* generateSignals, the initial buy crossover; position: the value read on entry
SmaInitialCrossover(st, p, currentPrice, position) ==
    IF ~st.initialBuyGenerated[p]
       /\ RLe(st.lastPrices[p], st.lastSmas[p]) /\ RLt(st.smas[p], currentPrice)
       /\ SmaShould(st, p, currentPrice)
    THEN IF TradingMode(st.mode) /\ position # "long"
         THEN [st |-> [SmaGenerateBuySignal(SmaEmitCrossoverSignal(st, p, currentPrice),
                                            p, currentPrice)
                         EXCEPT !.initialBuyGenerated[p] = TRUE],
               ev |-> <<CrossoverEv("BUY", currentPrice),
                        SignalEv("buy", currentPrice, position)>>]
         ELSE [st |-> [SmaEmitCrossoverSignal(st, p, currentPrice)
                         EXCEPT !.initialBuyGenerated[p] = TRUE],
               ev |-> <<CrossoverEv("BUY", currentPrice)>>]
    ELSE [st |-> st, ev |-> <<>>]

\* generateSignals, the subsequent crossovers; position is still the value
\* read on entry, before the initial crossover was handled
SmaSubsequentCrossover(st, p, currentPrice, position) ==
    IF st.initialBuyGenerated[p]
       /\ RLe(st.lastPrices[p], st.lastSmas[p]) /\ RLt(st.smas[p], currentPrice)
    THEN IF SmaShould(st, p, currentPrice)
         THEN IF TradingMode(st.mode) /\ position # "long"
              THEN [st |-> SmaGenerateBuySignal(SmaEmitCrossoverSignal(st, p, currentPrice),
                                                p, currentPrice),
                    ev |-> <<CrossoverEv("BUY", currentPrice),
                             SignalEv("buy", currentPrice, st.positions[p])>>]
              ELSE [st |-> SmaEmitCrossoverSignal(st, p, currentPrice),
                    ev |-> <<CrossoverEv("BUY", currentPrice)>>]
         ELSE [st |-> st, ev |-> <<>>]
    ELSE IF RLe(st.lastSmas[p], st.lastPrices[p]) /\ RLt(currentPrice, st.smas[p])
    THEN IF SmaShould(st, p, currentPrice)
         THEN IF TradingMode(st.mode) /\ position = "long"
              THEN [st |-> SmaGenerateSellSignal(SmaEmitCrossoverSignal(st, p, currentPrice),
                                                 p, currentPrice),
                    ev |-> <<CrossoverEv("SELL", currentPrice),
                             SignalEv("sell", currentPrice, st.positions[p])>>]
              ELSE [st |-> SmaEmitCrossoverSignal(st, p, currentPrice),
                    ev |-> <<CrossoverEv("SELL", currentPrice)>>]
         ELSE [st |-> st, ev |-> <<>>]
    ELSE [st |-> st, ev |-> <<>>]

\* the events of the first block followed by those of the second
After(ev, r) == [st |-> r.st, ev |-> ev \o r.ev]

SmaThenSubsequent(b1, p, currentPrice, position) ==
    After(b1.ev, SmaSubsequentCrossover(b1.st, p, currentPrice, position))

SmaGenerateSignals(st, p, currentPrice) ==
    IF st.smas[p] = NULL \/ st.lastPrices[p] = NULL \/ st.lastSmas[p] = NULL
    THEN [st |-> st, ev |-> <<>>]
    ELSE SmaThenSubsequent(SmaInitialCrossover(st, p, currentPrice, st.positions[p]),
                           p, currentPrice, st.positions[p])

\* onPriceUpdate after generateSignals: remember the price and the average
SmaRemember(r, p, price) ==
    [st |-> [r.st EXCEPT !.lastPrices[p] = price, !.lastSmas[p] = r.st.smas[p]],
     ev |-> r.ev]

SmaPush(st, p, h) ==
    [st EXCEPT !.priceHistories[p] =
        IF Len(h) > st.period * 2 THEN LastK(h, st.period * 2) ELSE h]

SmaOnPriceUpdate(st, p, price) ==
    SmaRemember(
        SmaGenerateSignals(
            SmaCalculateSMA(SmaPush(st, p, Append(st.priceHistories[p], price)), p),
            p, price),
        p, price)

\* simulateTrade: an affordability test against the live portfolio
SmaSimulateTrade(st, type, p, price, pf) ==
    LET livePortfolio == IF st.tradingEngine THEN pf ELSE [c \in Currencies |-> NULL]
    IN  IF type = "buy"
        THEN LET usdToSpend   == RMul(st.tradeAmount, price)
                 usdAvailable == RAdd(OrElse(livePortfolio["USD"], Zero),
                                      OrElse(livePortfolio["USDC"], Zero))
             IN  RLe(usdToSpend, usdAvailable)
        ELSE LET cryptoAvailable == OrElse(livePortfolio[CryptoSymbol(p)], Zero)
             IN  RLe(st.tradeAmount, cryptoAvailable)

\* faulty variant: the trades are dropped, positions and flags are kept
SmaResetTradesOnly(st) == [st EXCEPT !.trades = <<>>]

\* resetPerformance followed by the reset of positions and flags
SmaResetSession(st) ==
    [st EXCEPT !.trades = <<>>,
               !.positions = [p \in Products |-> "none"],
               !.initialBuyGenerated = [p \in Products |-> FALSE]]

\* updateParameters; an absent parameter is NULL (mode: "absent", period: 0)
SmaUpdateParameters(st, prm) ==
    LET oldPeriod == st.period
        s1 == IF prm.period # 0 /\ prm.period # st.period
              THEN [st EXCEPT !.period = prm.period] ELSE st
        s2 == IF prm.minMovementPercent # NULL
              THEN [s1 EXCEPT !.minMovementPercent = prm.minMovementPercent] ELSE s1
        s3 == IF prm.tradeAmount # NULL
              THEN [s2 EXCEPT !.tradeAmount = prm.tradeAmount] ELSE s2
        s4 == IF prm.mode # "absent"
              THEN LET m == [s3 EXCEPT !.mode = prm.mode]
                   IN  IF TradingMode(prm.mode) THEN SmaResetSession(m) ELSE m
              ELSE s3
    IN  IF prm.period # 0 /\ prm.period # oldPeriod
        THEN [s4 EXCEPT !.smas = [p \in Products |->
                 IF Len(s4.priceHistories[p]) = 0 THEN s4.smas[p]
                 ELSE SmaCalculateSMA(s4, p).smas[p]]]
        ELSE s4

-----------------------------------------------------------------------------
(* RiskManager *)

MaxPositionSize == 1000

\* RiskManager.getCurrentPrice: default prices for the risk calculation
RiskCurrentPrice(productId) ==
    CASE productId = "BTC-USD" -> R(50000)
      [] productId = "ETH-USD" -> R(3000)
      [] OTHER -> R(1000)

\* dailyLoss is only changed by recordLoss, which nothing calls: it stays 0
DailyLoss == Zero
DailyLossLimit == RMul(R(MaxPositionSize), Rat(5, 100))

CheckBuyOrder(productId, amount, price, pf) ==
    LET currentPrice == OrElse(price, RiskCurrentPrice(productId))
        orderValue   == RMul(amount, currentPrice)
    IN  IF RLt(R(MaxPositionSize), orderValue) THEN FALSE
        ELSE IF JsLt(pf["USD"], orderValue) THEN FALSE
        ELSE IF RLe(DailyLossLimit, DailyLoss) THEN FALSE
        ELSE TRUE

CheckSellOrder(productId, amount, price, pf) ==
    IF JsLt(pf[CryptoSymbol(productId)], amount) THEN FALSE ELSE TRUE

-----------------------------------------------------------------------------
(* TradingEngine: performance ledger *)

LedgerCap == 1000

\* the zeroed performanceData of a session started at time t
PerformanceData(t) ==
    [ sessionStartTime |-> t,
      totalTrades |-> 0, buyTrades |-> 0, sellTrades |-> 0,
      winningTrades |-> 0, losingTrades |-> 0,
      grossProfit |-> Zero, grossLoss |-> Zero, totalFees |-> Zero,
      realizedPnL |-> Zero, unrealizedPnL |-> Zero,
      trades |-> <<>>, maxDrawdown |-> Zero, peakEquity |-> Zero ]

PerfInit == PerformanceData(0)

\* the ledger's positions: a map from the products held to their position
NoPositions == [p \in {} |-> NULL]

PositionOf(pos, productId) ==
    IF productId \in DOMAIN pos THEN pos[productId]
    ELSE [amount |-> Zero, totalCost |-> Zero, avgPrice |-> Zero]

SetPosition(pos, productId, v) ==
    [p \in (DOMAIN pos) \cup {productId} |-> IF p = productId THEN v ELSE pos[p]]

DeletePosition(pos, productId) ==
    [p \in (DOMAIN pos) \ {productId} |-> pos[p]]

RecordBuyTrade(pos, productId, amount, price, totalValue) ==
    LET position     == PositionOf(pos, productId)
        newTotalCost == RAdd(position.totalCost, totalValue)
        newAmount    == RAdd(position.amount, amount)
        newAvgPrice  == IF RLt(Zero, newAmount) THEN RDiv(newTotalCost, newAmount)
                        ELSE Zero
    IN  SetPosition(pos, productId,
            [amount |-> newAmount, totalCost |-> newTotalCost, avgPrice |-> newAvgPrice])

\* the new positions and the realized P&L of the sale
RecordSellTrade(pos, productId, amount, price, totalValue) ==
    LET position == PositionOf(pos, productId)
    IN  IF RLe(position.amount, Zero) THEN [pos |-> pos, pnl |-> Zero]
        ELSE
        LET soldPortion     == RMin(amount, position.amount)
            costBasis       == RMul(soldPortion, position.avgPrice)
            realizedPnL     == RSub(RMul(soldPortion, price), costBasis)
            remainingAmount == RSub(position.amount, soldPortion)
            remainingCost   == RSub(position.totalCost, costBasis)
        IN  [pos |-> IF RLt(Zero, remainingAmount)
                     THEN SetPosition(pos, productId,
                              [amount |-> remainingAmount, totalCost |-> remainingCost,
                               avgPrice |-> position.avgPrice])
                     ELSE DeletePosition(pos, productId),
             pnl |-> realizedPnL]

RECURSIVE SumUnrealized(_, _, _)
SumUnrealized(pos, prices, todo) ==
    IF todo = {} THEN Zero
    ELSE LET p == CHOOSE x \in todo : TRUE
             currentPrice == OrElse(prices[p], Zero)
             rest == SumUnrealized(pos, prices, todo \ {p})
         IN  IF RLt(Zero, currentPrice)
             THEN RAdd(rest, RSub(RMul(pos[p].amount, currentPrice), pos[p].totalCost))
             ELSE rest

\* prices: CoinbaseService.getLastPrice per product
CalculateUnrealizedPnL(pos, prices) == SumUnrealized(pos, prices, DOMAIN pos)

\* faulty variant: maxDrawdown holds the latest drawdown, not the largest
UpdateDrawdownLatest(pd, pos, prices) ==
    LET unrealized    == CalculateUnrealizedPnL(pos, prices)
        currentEquity == RAdd(pd.realizedPnL, unrealized)
        peak          == IF RLt(pd.peakEquity, currentEquity) THEN currentEquity
                         ELSE pd.peakEquity
    IN  [pd EXCEPT !.unrealizedPnL = unrealized,
                   !.peakEquity = peak,
                   !.maxDrawdown = RSub(peak, currentEquity)]

UpdateDrawdownMetrics(pd, pos, prices) ==
    LET unrealized    == CalculateUnrealizedPnL(pos, prices)
        currentEquity == RAdd(pd.realizedPnL, unrealized)
        peak          == IF RLt(pd.peakEquity, currentEquity) THEN currentEquity
                         ELSE pd.peakEquity
        drawdown      == RSub(peak, currentEquity)
    IN  [pd EXCEPT !.unrealizedPnL = unrealized,
                   !.peakEquity = peak,
                   !.maxDrawdown = IF RLt(pd.maxDrawdown, drawdown) THEN drawdown
                                   ELSE pd.maxDrawdown]

\* faulty variant: the trade is counted without being stored
RecordTradeNoStore(pd, pos, productId, side, amount, price, fees, prices) ==
    [pd |-> [pd EXCEPT !.totalTrades = @ + 1], pos |-> pos]

\* recordTrade, the counters of every trade
CountTrade(pd, side, fees) ==
    [pd EXCEPT !.totalTrades = @ + 1,
               !.buyTrades = IF side = "BUY" THEN @ + 1 ELSE @,
               !.sellTrades = IF side = "BUY" THEN @ ELSE @ + 1,
               !.totalFees = RAdd(@, fees)]

\* faulty variant: a sale reaches the win and loss figures but not the total
CountPnLNoTotal(pd, side, pnl) ==
    IF side = "SELL"
    THEN IF RLt(Zero, pnl)
         THEN [pd EXCEPT !.winningTrades = @ + 1, !.grossProfit = RAdd(@, pnl)]
         ELSE [pd EXCEPT !.losingTrades = @ + 1, !.grossLoss = RAdd(@, RAbs(pnl))]
    ELSE pd

\* faulty variant: a sale without a loss counts as a win
CountPnLZeroWins(pd, side, pnl) ==
    IF side = "SELL"
    THEN IF RLe(Zero, pnl)
         THEN [pd EXCEPT !.winningTrades = @ + 1,
                         !.grossProfit = RAdd(@, pnl),
                         !.realizedPnL = RAdd(@, pnl)]
         ELSE [pd EXCEPT !.losingTrades = @ + 1,
                         !.grossLoss = RAdd(@, RAbs(pnl)),
                         !.realizedPnL = RAdd(@, pnl)]
    ELSE pd

\* recordTrade, the P&L metrics of a sale
CountPnL(pd, side, pnl) ==
    IF side = "SELL"
    THEN IF RLt(Zero, pnl)
         THEN [pd EXCEPT !.winningTrades = @ + 1,
                         !.grossProfit = RAdd(@, pnl),
                         !.realizedPnL = RAdd(@, pnl)]
         ELSE [pd EXCEPT !.losingTrades = @ + 1,
                         !.grossLoss = RAdd(@, RAbs(pnl)),
                         !.realizedPnL = RAdd(@, pnl)]
    ELSE pd

\* faulty variant: a full trades list keeps its entries and drops the new trade
StoreTradeKeepOldest(pd, trade) ==
    [pd EXCEPT !.trades = IF Len(@) + 1 > LedgerCap THEN @ ELSE Append(@, trade)]

\* recordTrade, the trades list keeps its last LedgerCap entries
StoreTrade(pd, trade) ==
    [pd EXCEPT !.trades = IF Len(@) + 1 > LedgerCap
                          THEN LastK(Append(@, trade), LedgerCap)
                          ELSE Append(@, trade)]

\* sell: the positions and the realized P&L after the position tracking
RecordTradeWith(pd, productId, side, amount, price, fees, prices, sell) ==
    [pd |-> UpdateDrawdownMetrics(
                StoreTrade(CountPnL(CountTrade(pd, side, fees), side, sell.pnl),
                           [productId |-> productId, side |-> side, amount |-> amount,
                            price |-> price, totalValue |-> RMul(amount, Num(price)),
                            fees |-> fees, isSimulated |-> FALSE,
                            realizedPnL |-> sell.pnl]),
                sell.pos, prices),
     pos |-> sell.pos]

\* recordTrade: the new performanceData and positions; price may be null
RecordTrade(pd, pos, productId, side, amount, price, fees, prices) ==
    RecordTradeWith(pd, productId, side, amount, price, fees, prices,
        IF side = "SELL"
        THEN RecordSellTrade(pos, productId, amount, Num(price), RMul(amount, Num(price)))
        ELSE [pos |-> RecordBuyTrade(pos, productId, amount, Num(price),
                                     RMul(amount, Num(price))),
              pnl |-> Zero])

-----------------------------------------------------------------------------
(* RSIStrategy (evaluates BTC-USD only) *)

RsiInit(period, mode, engine) ==
    [ period |-> period,
      oversoldThreshold |-> R(30),
      overboughtThreshold |-> R(70),
      tradeAmount |-> Rat(1, 100),
      mode |-> mode,
      tradingEngine |-> engine,
      priceHistory |-> <<>>,
      gains |-> <<>>,
      losses |-> <<>>,
      rsi |-> NULL,
      position |-> "none",
      trades |-> <<>> ]

RsiCalculateRSI(st) ==
    IF Len(st.gains) < st.period THEN st
    ELSE LET avgGain == RDiv(SumSeq(st.gains), R(st.period))
             avgLoss == RDiv(SumSeq(st.losses), R(st.period))
         IN  IF avgLoss = Zero THEN [st EXCEPT !.rsi = R(100)]
             ELSE LET rs == RDiv(avgGain, avgLoss)
                  IN  [st EXCEPT !.rsi = RSub(R(100), RDiv(R(100), RAdd(R(1), rs)))]

\* faulty variant: the position does not gate the signals
RsiGenerateSignalsUngated(st, currentPrice) ==
    IF ~Truthy(st.rsi) THEN [st |-> st, ev |-> <<>>]
    ELSE IF RLe(st.rsi, st.oversoldThreshold)
    THEN [st |-> [st EXCEPT !.position = "long"],
          ev |-> <<[SignalEv("buy", currentPrice, st.position)
                      EXCEPT !.exec = TradingMode(st.mode)]>>]
    ELSE IF RLe(st.overboughtThreshold, st.rsi)
    THEN [st |-> [st EXCEPT !.position = "short"],
          ev |-> <<[SignalEv("sell", currentPrice, st.position)
                      EXCEPT !.exec = TradingMode(st.mode)]>>]
    ELSE IF RLt(RAdd(st.oversoldThreshold, R(10)), st.rsi)
            /\ RLt(st.rsi, RSub(st.overboughtThreshold, R(10)))
    THEN [st |-> [st EXCEPT !.position = "none"], ev |-> <<>>]
    ELSE [st |-> st, ev |-> <<>>]

RsiGenerateSignals(st, currentPrice) ==
    IF ~Truthy(st.rsi) THEN [st |-> st, ev |-> <<>>]
    ELSE IF RLe(st.rsi, st.oversoldThreshold) /\ st.position # "long"
    THEN [st |-> [st EXCEPT !.position = "long"],
          ev |-> <<[SignalEv("buy", currentPrice, st.position)
                      EXCEPT !.exec = TradingMode(st.mode)]>>]
    ELSE IF RLe(st.overboughtThreshold, st.rsi) /\ st.position # "short"
    THEN [st |-> [st EXCEPT !.position = "short"],
          ev |-> <<[SignalEv("sell", currentPrice, st.position)
                      EXCEPT !.exec = TradingMode(st.mode)]>>]
    ELSE IF RLt(RAdd(st.oversoldThreshold, R(10)), st.rsi)
            /\ RLt(st.rsi, RSub(st.overboughtThreshold, R(10)))
    THEN [st |-> [st EXCEPT !.position = "none"], ev |-> <<>>]
    ELSE [st |-> st, ev |-> <<>>]

RsiOnPriceUpdate(st, price) ==
    LET h == Append(st.priceHistory, price)
        r == IF Len(h) >= 2
             THEN LET change == RSub(price, h[Len(h) - 1])
                      g  == Append(st.gains, IF RLt(Zero, change) THEN change ELSE Zero)
                      l  == Append(st.losses, IF RLt(Zero, change) THEN Zero ELSE RAbs(change))
                      g2 == IF Len(g) > st.period THEN Tail(g) ELSE g
                      l2 == IF Len(g) > st.period THEN Tail(l) ELSE l
                      s1 == RsiCalculateRSI([st EXCEPT !.priceHistory = h,
                                                       !.gains = g2, !.losses = l2])
                  IN  RsiGenerateSignals(s1, price)
             ELSE [st |-> [st EXCEPT !.priceHistory = h], ev |-> <<>>]
    IN  [st |-> IF Len(h) > r.st.period * 2
                THEN [r.st EXCEPT !.priceHistory = LastK(h, r.st.period)]
                ELSE r.st,
         ev |-> r.ev]

RsiUpdateParameters(st, prm) ==
    LET s1 == IF prm.period # 0 THEN [st EXCEPT !.period = prm.period] ELSE st
        s2 == IF prm.oversoldThreshold # NULL
              THEN [s1 EXCEPT !.oversoldThreshold = prm.oversoldThreshold] ELSE s1
        s3 == IF prm.overboughtThreshold # NULL
              THEN [s2 EXCEPT !.overboughtThreshold = prm.overboughtThreshold] ELSE s2
        s4 == IF prm.tradeAmount # NULL
              THEN [s3 EXCEPT !.tradeAmount = prm.tradeAmount] ELSE s3
    IN  IF prm.mode # "absent"
        THEN IF TradingMode(prm.mode)
             THEN [s4 EXCEPT !.mode = prm.mode, !.trades = <<>>, !.position = "none"]
             ELSE [s4 EXCEPT !.mode = prm.mode]
        ELSE s4

-----------------------------------------------------------------------------
(* MACDStrategy (evaluates BTC-USD only) *)

MacdInit(fast, slow, signal, mode, engine) ==
    [ fastPeriod |-> fast,
      slowPeriod |-> slow,
      signalPeriod |-> signal,
      minMovementPercent |-> Rat(5, 1000),
      tradeAmount |-> Rat(1, 100),
      mode |-> mode,
      tradingEngine |-> engine,
      priceHistory |-> <<>>,
      fastEMA |-> NULL,
      slowEMA |-> NULL,
      macdLine |-> NULL,
      signalLine |-> NULL,
      histogram |-> NULL,
      macdHistory |-> <<>>,
      signalHistory |-> <<>>,
      position |-> "none",
      prevHistogram |-> NULL,
      trades |-> <<>>,
      lastSignalPrice |-> NULL ]

\* one exponential moving average: seeded by the mean of the last `period`
\* prices, then smoothed with the multiplier 2 / (period + 1)
EmaStep(prev, history, period, current) ==
    IF prev = NULL
    THEN IF Len(history) >= period
         THEN RDiv(SumSeq(LastK(history, period)), R(period))
         ELSE NULL
    ELSE RAdd(RMul(RSub(current, prev), Rat(2, period + 1)), prev)

MacdCalculateEMAs(st) ==
    IF Len(st.priceHistory) = 0 THEN st
    ELSE LET currentPrice == st.priceHistory[Len(st.priceHistory)]
         IN  [st EXCEPT
                !.fastEMA = EmaStep(st.fastEMA, st.priceHistory, st.fastPeriod, currentPrice),
                !.slowEMA = EmaStep(st.slowEMA, st.priceHistory, st.slowPeriod, currentPrice)]

MacdCalculateMACD(st) ==
    IF ~Truthy(st.fastEMA) \/ ~Truthy(st.slowEMA) THEN st
    ELSE LET macdLine == RSub(st.fastEMA, st.slowEMA)
             mh  == Append(st.macdHistory, macdLine)
             mh2 == IF Len(mh) > st.signalPeriod * 3
                    THEN LastK(mh, st.signalPeriod * 2) ELSE mh
             signalLine == EmaStep(st.signalLine, mh2, st.signalPeriod, macdLine)
             s1  == [st EXCEPT !.macdLine = macdLine, !.macdHistory = mh2,
                               !.signalLine = signalLine]
         IN  IF signalLine # NULL
             THEN LET sh == Append(st.signalHistory, signalLine)
                  IN  [s1 EXCEPT
                         !.signalHistory = IF Len(sh) > st.signalPeriod * 2
                                           THEN Tail(sh) ELSE sh,
                         !.prevHistogram = st.histogram,
                         !.histogram = RSub(macdLine, signalLine)]
             ELSE s1

MacdShould(st, currentPrice) ==
    ShouldGenerateCrossoverSignal(st.lastSignalPrice, currentPrice,
                                  st.tradeAmount, st.minMovementPercent)

MacdGenerateSignals(st, currentPrice) ==
    IF ~Truthy(st.macdLine) \/ ~Truthy(st.signalLine) \/ ~Truthy(st.histogram)
       \/ st.prevHistogram = NULL
    THEN [st |-> st, ev |-> <<>>]
    ELSE IF RLt(st.signalLine, st.macdLine) /\ RLe(st.prevHistogram, Zero)
            /\ RLt(Zero, st.histogram)
    THEN IF MacdShould(st, currentPrice)
         THEN [st |-> [st EXCEPT !.position = "long", !.lastSignalPrice = currentPrice],
               ev |-> IF TradingMode(st.mode)
                      THEN <<SignalEv("buy", currentPrice, st.position)>> ELSE <<>>]
         ELSE [st |-> st, ev |-> <<>>]
    ELSE IF RLt(st.macdLine, st.signalLine) /\ RLe(Zero, st.prevHistogram)
            /\ RLt(st.histogram, Zero)
    THEN IF MacdShould(st, currentPrice)
         THEN [st |-> [st EXCEPT !.position = "short", !.lastSignalPrice = currentPrice],
               ev |-> IF TradingMode(st.mode)
                      THEN <<SignalEv("sell", currentPrice, st.position)>> ELSE <<>>]
         ELSE [st |-> st, ev |-> <<>>]
    ELSE [st |-> st, ev |-> <<>>]

MacdOnPriceUpdate(st, price) ==
    LET h  == Append(st.priceHistory, price)
        maxPeriod == (IF st.fastPeriod > st.slowPeriod THEN st.fastPeriod
                      ELSE st.slowPeriod) * 3
        h2 == IF Len(h) > maxPeriod THEN LastK(h, maxPeriod) ELSE h
        s1 == MacdCalculateMACD(MacdCalculateEMAs([st EXCEPT !.priceHistory = h2]))
    IN  MacdGenerateSignals(s1, price)

MacdUpdateParameters(st, prm) ==
    LET s1 == IF prm.fastPeriod # 0 THEN [st EXCEPT !.fastPeriod = prm.fastPeriod] ELSE st
        s2 == IF prm.slowPeriod # 0 THEN [s1 EXCEPT !.slowPeriod = prm.slowPeriod] ELSE s1
        s3 == IF prm.signalPeriod # 0
              THEN [s2 EXCEPT !.signalPeriod = prm.signalPeriod] ELSE s2
        s4 == IF prm.minMovementPercent # NULL
              THEN [s3 EXCEPT !.minMovementPercent = prm.minMovementPercent] ELSE s3
        s5 == IF prm.tradeAmount # NULL
              THEN [s4 EXCEPT !.tradeAmount = prm.tradeAmount] ELSE s4
    IN  IF prm.mode # "absent"
        THEN IF TradingMode(prm.mode)
             THEN [s5 EXCEPT !.mode = prm.mode, !.trades = <<>>, !.position = "none"]
             ELSE [s5 EXCEPT !.mode = prm.mode]
        ELSE s5

-----------------------------------------------------------------------------
(* TradingEngine and strategies: order execution *)

\* faulty variant: the catch blocks let the exception through
FailureResultRethrow(error) == [success |-> FALSE, error |-> error, thrown |-> TRUE]

\* the result object built by a catch block of the execution path:
\* { success: false, error: error.message }, returned (not thrown)
FailureResult(error) == [success |-> FALSE, error |-> error, thrown |-> FALSE]

SuccessResult == [success |-> TRUE, error |-> "", thrown |-> FALSE]

\* what the exchange answers to a placed order: the call throws, or it
\* returns the order with its id, with or without a fill price
Responses ==
    { [thrown |-> TRUE,  fill |-> "none", tracked |-> FALSE] } \cup
    { [thrown |-> FALSE, fill |-> f, tracked |-> TRUE] : f \in {"none", "market"} }

Side(type) == IF type = "buy" THEN "BUY" ELSE "SELL"

\* faulty variant: the trade is recorded before the outcome of the call is known
EngineSettleRecordFirst(pd, pos, t, resp, lastPrice) ==
    LET r == RecordTrade(pd, pos, BTC, Side(t.type), t.amount, NULL,
                         Zero, [p \in Products |-> lastPrice])
    IN  [pd |-> r.pd, pos |-> r.pos,
         result |-> IF resp.thrown THEN FailureResult("exchange") ELSE SuccessResult]

\* executeBuyOrder / executeSellOrder after the exchange call: the ledger and
\* the result returned to the strategy (t: the pending call, resp: the answer)
EngineSettle(pd, pos, t, resp, lastPrice) ==
    IF resp.thrown
    THEN [pd |-> pd, pos |-> pos, result |-> FailureResult("exchange")]
    ELSE LET executedPrice == IF resp.fill = "market" THEN lastPrice ELSE NULL
             r == RecordTrade(pd, pos, BTC, Side(t.type), t.amount, executedPrice,
                              Zero, [p \in Products |-> lastPrice])
         IN  [pd |-> r.pd, pos |-> r.pos, result |-> SuccessResult]

\* executeTrade up to the exchange call: the mode and engine checks of the
\* strategy and the risk check of the engine against the current portfolio
ExecuteTradeStart(st, type, pf) ==
    IF st.mode = "stopped" THEN "ignored"
    ELSE IF ~st.tradingEngine THEN "noEngine"
    ELSE IF type = "buy"
         THEN IF CheckBuyOrder(BTC, st.tradeAmount, NULL, pf) THEN "placed" ELSE "rejected"
         ELSE IF CheckSellOrder(BTC, st.tradeAmount, NULL, pf) THEN "placed" ELSE "rejected"

\* executeTrade after the engine call returned `result`: the strategy's trade
\* list, the result of executeTrade and whether syncPortfolio is awaited next
ExecuteTradeSettle(s, st, t, result) ==
    IF result.thrown
    THEN [st |-> st, result |-> FailureResult(result.error), sync |-> FALSE]
    ELSE IF result.success
    THEN LET trade == [type |-> t.type, price |-> t.price, amount |-> st.tradeAmount,
                       mode |-> st.mode,
                       status |-> IF st.mode = "active" THEN "executed" ELSE "simulated"]
         IN  [st |-> [st EXCEPT !.trades = Append(@, trade)],
              result |-> SuccessResult,
              sync |-> IF s = "sma" THEN st.mode = "active" ELSE TRUE]
    ELSE [st |-> st, result |-> result, sync |-> FALSE]

\* how the promise of generateBuySignal / generateSellSignal ends
TaskEnd(result) == IF result.thrown THEN "rejected" ELSE "fulfilled"

\* what happens to one event of a tick in the same turn of the event loop
SignalOutcome(s, st, e, pf) ==
    IF ~e.exec THEN "ignored"
    ELSE IF s = "sma" /\ st.mode = "simulation"
    THEN IF SmaSimulateTrade(st, e.type, BTC, e.price, pf) THEN "simOk" ELSE "simFail"
    ELSE ExecuteTradeStart(st, e.type, pf)

-----------------------------------------------------------------------------
(* The running system *)

StratOf(s) == CASE s = "sma" -> sma [] s = "rsi" -> rsi [] OTHER -> macd

Mode == StratOf(running).mode
Trades == StratOf(running).trades
Position == IF running = "sma" THEN sma.positions[BTC] ELSE StratOf(running).position

OnPriceUpdate(s, price) ==
    CASE s = "sma" -> SmaOnPriceUpdate(sma, BTC, price)
      [] s = "rsi" -> RsiOnPriceUpdate(rsi, price)
      [] OTHER     -> MacdOnPriceUpdate(macd, price)

IsSignal(e) == e.kind = "signal"
IsCrossover(e) == e.kind = "crossover"

\* the parameters of one update request; absent ones are 0 / NULL / "absent"
NoParams ==
    [ period |-> 0, fastPeriod |-> 0, slowPeriod |-> 0, signalPeriod |-> 0,
      minMovementPercent |-> NULL, tradeAmount |-> NULL, mode |-> "absent",
      oversoldThreshold |-> NULL, overboughtThreshold |-> NULL ]

ParamUpdates(s) ==
    { [NoParams EXCEPT !.mode = m] : m \in Modes } \cup
    (IF s = "sma" THEN { [NoParams EXCEPT !.minMovementPercent = Zero],
                         [NoParams EXCEPT !.period = 3] }
     ELSE IF s = "rsi" THEN { [NoParams EXCEPT !.period = 3] }
     ELSE { [NoParams EXCEPT !.minMovementPercent = Zero] })

UpdateParametersOf(s, prm) ==
    CASE s = "sma" -> SmaUpdateParameters(sma, prm)
      [] s = "rsi" -> RsiUpdateParameters(rsi, prm)
      [] OTHER     -> MacdUpdateParameters(macd, prm)

SetStrat(st) ==
    /\ sma'  = IF running = "sma"  THEN st ELSE sma
    /\ rsi'  = IF running = "rsi"  THEN st ELSE rsi
    /\ macd' = IF running = "macd" THEN st ELSE macd

NoStep == [act |-> "init", mode |-> "stopped", outcomes |-> <<>>, crossovers |-> 0]

\* the engine after StrategyManager.startStrategy: a loaded portfolio, a
\* reset ledger, nothing pending
Started ==
    /\ active = {running}
    /\ selectedCrypto = BTC
    /\ portfolio \in Portfolios
    /\ perf = PerfInit
    /\ positions = NoPositions
    /\ activeOrders = 0
    /\ market = NULL
    /\ pending = {}
    /\ published = <<>>
    /\ nextId = 0
    /\ ticks = 0
    /\ updates = 0
    /\ livePlaced = 0
    /\ execOk = 0
    /\ sigLog = <<>>
    /\ now = 0
    /\ last = NoStep

Init ==
    /\ running \in Strategies
    /\ \E m \in Modes :
          /\ sma  = SmaInit(2, IF running = "sma" THEN m ELSE "stopped", TRUE)
          /\ rsi  = RsiInit(2, IF running = "rsi" THEN m ELSE "stopped", TRUE)
          /\ macd = MacdInit(1, 2, 2, IF running = "macd" THEN m ELSE "stopped", TRUE)
    /\ Started

PublishedSignal(id, type, result) ==
    [kind |-> "signal", id |-> id, type |-> type, result |-> result]

\* the result a signal carries when it is published in the turn of its tick
ResultOf(outcome) ==
    IF outcome = "simOk" THEN "success"
    ELSE IF outcome = "ignored" THEN "none" ELSE "failure"

NotPlaced(o) == o.outcome # "placed"

\* faulty variant: a rejected order is attempted again
PlacedOrRejected(o) == o.outcome \in {"placed", "rejected"}

Placed(o) == o.outcome = "placed"

\* what became of the trade signals of a tick in the turn of the tick
Outcomes(st, sigs) ==
    [i \in 1..Len(sigs) |->
        [id |-> nextId + i, type |-> sigs[i].type, price |-> sigs[i].price,
         prevPos |-> sigs[i].prevPos,
         outcome |-> SignalOutcome(running, st, sigs[i], portfolio)]]

\* the executions left pending by the orders placed in a tick
NewTasks(st, placed) ==
    { [id |-> placed[i].id, type |-> placed[i].type, price |-> placed[i].price,
       amount |-> st.tradeAmount, prevPos |-> placed[i].prevPos, stage |-> "exec"] :
      i \in 1..Len(placed) }

PublishCrossovers(xs) ==
    [i \in 1..Len(xs) |->
        [kind |-> "crossover", id |-> 0, type |-> xs[i].type, result |-> "none"]]

PublishSettled(settled) ==
    [i \in 1..Len(settled) |->
        PublishedSignal(settled[i].id, settled[i].type, ResultOf(settled[i].outcome))]

TaskOf(o) == IF o.outcome = "placed" THEN "pending" ELSE "fulfilled"

TickCommit(st, out, xs) ==
    /\ SetStrat(st)
    /\ pending' = pending \cup NewTasks(st, SelectSeq(out, Placed))
    /\ livePlaced' = livePlaced + Len(SelectSeq(out, Placed))
    /\ published' = published \o PublishCrossovers(xs)
                              \o PublishSettled(SelectSeq(out, NotPlaced))
    /\ nextId' = nextId + Len(out)
    /\ sigLog' = IF running = "rsi" /\ Len(out) = 0 /\ st.position = "none"
                 THEN <<>>
                 ELSE sigLog \o [i \in 1..Len(out) |->
                                    [type |-> out[i].type, price |-> out[i].price]]
    /\ last' = [act |-> "tick", mode |-> Mode,
                outcomes |-> [i \in 1..Len(out) |->
                                [id |-> out[i].id, type |-> out[i].type,
                                 price |-> out[i].price, prevPos |-> out[i].prevPos,
                                 outcome |-> out[i].outcome, task |-> TaskOf(out[i])]],
                crossovers |-> Len(xs)]

TickDispatch(r) ==
    TickCommit(r.st, Outcomes(r.st, SelectSeq(r.ev, IsSignal)),
               SelectSeq(r.ev, IsCrossover))

\* a price tick of the selected product: CoinbaseService stores the price and
\* notifies the subscribers; index.js forwards it to the running strategy
Deliver(price) ==
    /\ TickDispatch(OnPriceUpdate(running, price))
    /\ market' = price
    /\ ticks' = ticks + 1
    /\ UNCHANGED <<running, active, selectedCrypto, portfolio, perf, positions, activeOrders, updates, execOk,
                   now>>

Tick(price) ==
    /\ ticks < MaxTicks
    /\ Deliver(price)

ExecCommit(t, resp, e, x) ==
    /\ perf' = e.pd
    /\ positions' = e.pos
    /\ activeOrders' = IF ~resp.thrown /\ resp.tracked
                       THEN activeOrders + 1 ELSE activeOrders
    /\ SetStrat(x.st)
    /\ execOk' = IF e.result.success THEN execOk + 1 ELSE execOk
    /\ pending' = IF x.sync THEN (pending \ {t}) \cup {[t EXCEPT !.stage = "sync"]}
                  ELSE pending \ {t}
    /\ published' = IF x.sync \/ x.result.thrown THEN published
                    ELSE Append(published,
                             PublishedSignal(t.id, t.type,
                                 IF x.result.success THEN "success" ELSE "failure"))
    /\ last' = [act |-> "exec", mode |-> Mode,
                outcomes |-> <<[id |-> t.id, type |-> t.type, price |-> t.price,
                                prevPos |-> t.prevPos,
                                outcome |-> IF resp.thrown THEN "threw" ELSE "ok",
                                task |-> IF x.sync THEN "pending"
                                         ELSE TaskEnd(x.result)]>>,
                crossovers |-> 0]

ExecSettle(t, resp, e) ==
    ExecCommit(t, resp, e, ExecuteTradeSettle(running, StratOf(running), t, e.result))

\* the exchange answers a placed order: the engine tracks and records the
\* trade, the strategy stores it and starts the portfolio sync, or the signal
\* is published with the failure
ExecComplete(t, resp) ==
    /\ t \in pending
    /\ t.stage = "exec"
    /\ ExecSettle(t, resp, EngineSettle(perf, positions, t, resp, market))
    /\ UNCHANGED <<running, active, selectedCrypto, portfolio, market, nextId, ticks, updates, livePlaced, sigLog,
                   now>>

\* syncPortfolio after a stored trade: loadPortfolio replaces the portfolio by
\* what the exchange reports (all zero when the request fails), then the
\* signal is published
SyncComplete(t, pf) ==
    /\ t \in pending
    /\ t.stage = "sync"
    /\ portfolio' = pf
    /\ pending' = pending \ {t}
    /\ published' = Append(published, PublishedSignal(t.id, t.type, "success"))
    /\ last' = [act |-> "sync", mode |-> Mode,
                outcomes |-> <<[id |-> t.id, type |-> t.type, price |-> t.price,
                                prevPos |-> t.prevPos, outcome |-> "synced",
                                task |-> "fulfilled"]>>,
                crossovers |-> 0]
    /\ UNCHANGED <<running, active, selectedCrypto, sma, rsi, macd, perf, positions, activeOrders, market,
                   nextId, ticks, updates, livePlaced, execOk, sigLog, now>>

\* POST /strategy/update: StrategyManager.updateStrategy -> updateParameters
UpdateParameters(prm) ==
    /\ updates < MaxUpdates
    /\ SetStrat(UpdateParametersOf(running, prm))
    /\ sigLog' = IF TradingMode(prm.mode) THEN <<>> ELSE sigLog
    /\ updates' = updates + 1
    /\ last' = [act |-> "update", mode |-> Mode, outcomes |-> <<>>, crossovers |-> 0,
                \* the mode parameter, and the trades and position before the call
                set |-> prm.mode, stored |-> Len(Trades), held |-> Position]
    /\ UNCHANGED <<running, active, selectedCrypto, portfolio, perf, positions, activeOrders, market, pending,
                   published, nextId, ticks, livePlaced, execOk, now>>

\* faulty variant: the positions survive the reset
ResetKeepingPositions(t) ==
    /\ perf' = PerformanceData(t)
    /\ positions' = positions
    /\ now' = t

\* TradingEngine.resetPerformanceData at clock reading t
ResetAt(t) ==
    /\ perf' = PerformanceData(t)
    /\ positions' = NoPositions
    /\ now' = t

\* the clock readings of a call: the previous reading or a later one
ClockReadings == {now, now + 1}

\* POST /performance/reset: TradingEngine.resetPerformanceData
ResetPerformanceData ==
    /\ updates < MaxUpdates
    /\ \E t \in ClockReadings : ResetAt(t)
    /\ updates' = updates + 1
    /\ last' = [act |-> "reset", mode |-> Mode, outcomes |-> <<>>, crossovers |-> 0]
    /\ UNCHANGED <<running, active, selectedCrypto, sma, rsi, macd, portfolio, activeOrders, market, pending,
                   published, nextId, ticks, livePlaced, execOk, sigLog>>

Next ==
    \/ \E price \in FeedPrices(running) : Tick(price)
    \/ \E t \in pending, resp \in Responses : ExecComplete(t, resp)
    \/ \E t \in pending, pf \in Portfolios : SyncComplete(t, pf)
    \/ \E prm \in ParamUpdates(running) : UpdateParameters(prm)
    \/ ResetPerformanceData

Spec == Init /\ [][Next]_vars

-----------------------------------------------------------------------------
(* The crossover scenario of the SMA test script *)

ScenarioFeed ==
    << R(49900), R(49950), R(50000), R(50050), R(50100), R(50150),
       R(50100), R(50050), R(50000), R(49950), R(49900) >>

\* a fresh SMA strategy with period 5, with or without a trading engine
InitScenario ==
    /\ running = "sma"
    /\ \E m \in Modes, engine \in BOOLEAN : sma = SmaInit(5, m, engine)
    /\ rsi  = RsiInit(2, "stopped", TRUE)
    /\ macd = MacdInit(1, 2, 2, "stopped", TRUE)
    /\ Started

ScenarioTick ==
    /\ ticks < Len(ScenarioFeed)
    /\ Deliver(ScenarioFeed[ticks + 1])

NextScenario == ScenarioTick

SpecScenario == InitScenario /\ [][NextScenario]_vars

-----------------------------------------------------------------------------
(* The indicator functions and the movement filter, applied to drawn inputs *)

\* stopped strategies that have seen no tick, no order placed
NoActivity ==
    /\ running = "sma"
    /\ active = {}
    /\ selectedCrypto = BTC
    /\ sma  = SmaInit(2, "stopped", TRUE)
    /\ rsi  = RsiInit(2, "stopped", TRUE)
    /\ macd = MacdInit(1, 2, 2, "stopped", TRUE)
    /\ portfolio = DefaultPortfolio
    /\ activeOrders = 0
    /\ market = NULL
    /\ pending = {}
    /\ published = <<>>
    /\ nextId = 0
    /\ ticks = 0
    /\ updates = 0
    /\ livePlaced = 0
    /\ execOk = 0
    /\ sigLog = <<>>
    /\ now = 0

\* an engine with no strategy running and no session activity
Idle ==
    /\ NoActivity
    /\ perf = PerfInit
    /\ positions = NoPositions

\* prices around the two reference prices 100 and 200
FilterPrices == {R(100), R(101), R(150), R(200), R(201)}

\* the settings of a strategy and two prices to judge against the price of its
\* latest signal (NULL: no signal yet); tradeAmount and minMovementPercent
\* take any number updateParameters stores
FilterInputs ==
    [ act : {"filterInput"},
      lastSignalPrice : {NULL, R(100), R(200)},
      currentPrice : FilterPrices,
      fartherPrice : FilterPrices,
      tradeAmount : {Zero, Rat(1, 100), R(1)},
      minMovementPercent : {Zero, Rat(5, 1000), Rat(1, 100), Rat(1, 2)},
      result : {FALSE},
      resultFarther : {FALSE} ]

InitFilter ==
    /\ Idle
    /\ last \in FilterInputs

\* shouldGenerateCrossoverSignal for the two prices of the input
ApplyFilter ==
    /\ last.act = "filterInput"
    /\ last' = [last EXCEPT
            !.act = "filter",
            !.result = ShouldGenerateCrossoverSignal(last.lastSignalPrice,
                           last.currentPrice, last.tradeAmount, last.minMovementPercent),
            !.resultFarther = ShouldGenerateCrossoverSignal(last.lastSignalPrice,
                           last.fartherPrice, last.tradeAmount, last.minMovementPercent)]
    /\ UNCHANGED <<running, active, selectedCrypto, sma, rsi, macd, portfolio, perf, positions, activeOrders,
                   market, pending, published, nextId, ticks, updates, livePlaced,
                   execOk, sigLog, now>>

NextFilter == ApplyFilter

SpecFilter == InitFilter /\ [][NextFilter]_vars

-----------------------------------------------------------------------------
(* TechnicalIndicators and the strategies' own averages, on drawn windows *)

\* longest price list drawn
MaxLen == 5

IndicatorPrices == {R(1), R(2), R(3), R(4), R(5)}
IndicatorPeriods == {1, 2, 3}

\* faulty variant: the mean of the whole list
SmaOfAll(prices, period) ==
    IF Len(prices) < period THEN NULL
    ELSE RDiv(SumSeq(prices), R(Len(prices)))

\* TechnicalIndicators.sma
TechnicalIndicatorsSma(prices, period) ==
    IF Len(prices) < period THEN NULL
    ELSE RDiv(SumSeq(LastK(prices, period)), R(period))

\* prices[i] - prices[i - 1] for i = 2 .. Len(prices)
Changes(prices) ==
    [i \in 1..(Len(prices) - 1) |-> RSub(prices[i + 1], prices[i])]

Gain(change) == IF RLt(Zero, change) THEN change ELSE Zero
Loss(change) == IF RLt(change, Zero) THEN RAbs(change) ELSE Zero

\* 100 - 100 / (1 + avgGain / avgLoss), or 100 when avgLoss is 0
RsiOf(avgGain, avgLoss) ==
    IF avgLoss = Zero THEN R(100)
    ELSE RSub(R(100), RDiv(R(100), RAdd(R(1), RDiv(avgGain, avgLoss))))

\* faulty variant: gains and losses exchanged
RsiSwapped(prices, period) ==
    IF Len(prices) < period + 1 THEN NULL
    ELSE RsiOf(
           RDiv(SumSeq(LastK([i \in DOMAIN Changes(prices) |-> Loss(Changes(prices)[i])],
                             period)), R(period)),
           RDiv(SumSeq(LastK([i \in DOMAIN Changes(prices) |-> Gain(Changes(prices)[i])],
                             period)), R(period)))

\* TechnicalIndicators.rsi
TechnicalIndicatorsRsi(prices, period) ==
    IF Len(prices) < period + 1 THEN NULL
    ELSE RsiOf(
           RDiv(SumSeq(LastK([i \in DOMAIN Changes(prices) |-> Gain(Changes(prices)[i])],
                             period)), R(period)),
           RDiv(SumSeq(LastK([i \in DOMAIN Changes(prices) |-> Loss(Changes(prices)[i])],
                             period)), R(period)))

\* a strategy after onPriceUpdate for each price of the list, in order
RECURSIVE SmaFeed(_, _)
SmaFeed(st, prices) ==
    IF prices = <<>> THEN st
    ELSE SmaFeed(SmaOnPriceUpdate(st, BTC, Head(prices)).st, Tail(prices))

RECURSIVE RsiFeed(_, _)
RsiFeed(st, prices) ==
    IF prices = <<>> THEN st
    ELSE RsiFeed(RsiOnPriceUpdate(st, Head(prices)).st, Tail(prices))

PriceLists == UNION { [1..n -> IndicatorPrices] : n \in 0..MaxLen }

IndicatorInputs ==
    [ act : {"indicatorInput"},
      prices : PriceLists,
      period : IndicatorPeriods,
      value : {NULL},
      strategyValue : {NULL} ]

InitIndicators ==
    /\ Idle
    /\ last \in IndicatorInputs

IndicatorFrame ==
    UNCHANGED <<running, active, selectedCrypto, sma, rsi, macd, portfolio, perf, positions, activeOrders,
                market, pending, published, nextId, ticks, updates, livePlaced,
                execOk, sigLog, now>>

\* TechnicalIndicators.sma(prices, period), and the sma of a new SMA strategy
\* with that period after the prices
ApplySma ==
    /\ last.act = "indicatorInput"
    /\ last' = [last EXCEPT
            !.act = "sma",
            !.value = TechnicalIndicatorsSma(last.prices, last.period),
            !.strategyValue =
                SmaFeed(SmaInit(last.period, "stopped", TRUE), last.prices).smas[BTC]]
    /\ IndicatorFrame

\* TechnicalIndicators.rsi(prices, period), and the rsi of a new RSI strategy
\* with that period after the prices
ApplyRsi ==
    /\ last.act = "indicatorInput"
    /\ last' = [last EXCEPT
            !.act = "rsi",
            !.value = TechnicalIndicatorsRsi(last.prices, last.period),
            !.strategyValue =
                RsiFeed(RsiInit(last.period, "stopped", TRUE), last.prices).rsi]
    /\ IndicatorFrame

NextIndicators == ApplySma \/ ApplyRsi

SpecIndicators == InitIndicators /\ [][NextIndicators]_vars

-----------------------------------------------------------------------------
(* The performance ledger under recordTrade and resetPerformanceData calls *)

\* number of ledger calls in one behaviour
MaxCalls == 3

\* amounts of the recorded orders: the tradeAmount of a strategy, which
\* updateParameters sets to any number
TradeAmounts == {Zero, R(1), R(2)}

\* executed prices; NULL: the exchange reported no price for a market order
TradePrices == {NULL, R(100), R(200), R(250)}

\* a new session: nothing recorded yet
InitLedger ==
    /\ Idle
    /\ last = [act |-> "new", side |-> "none", amount |-> Zero, price |-> NULL]

LedgerCommit(r, side, amount, price) ==
    /\ perf' = r.pd
    /\ positions' = r.pos
    /\ last' = [act |-> "recordTrade", side |-> side, amount |-> amount, price |-> price]

\* TradingEngine.recordTrade(productId, side, amount, price), no ticker seen
LedgerRecordTrade(side, amount, price) ==
    /\ updates < MaxCalls
    /\ LedgerCommit(RecordTrade(perf, positions, BTC, side, amount, price, Zero,
                                [p \in Products |-> market]),
                    side, amount, price)
    /\ updates' = updates + 1
    /\ UNCHANGED <<running, active, selectedCrypto, sma, rsi, macd, portfolio, activeOrders, market, pending,
                   published, nextId, ticks, livePlaced, execOk, sigLog, now>>

\* TradingEngine.resetPerformanceData()
LedgerReset ==
    /\ updates < MaxCalls
    /\ \E t \in ClockReadings : ResetAt(t)
    /\ updates' = updates + 1
    /\ last' = [act |-> "reset",
                \* resets in a row, and the trades the first of them cleared
                calls |-> IF last.act = "reset" THEN last.calls + 1 ELSE 1,
                cleared |-> IF last.act = "reset" THEN last.cleared
                            ELSE perf.totalTrades]
    /\ UNCHANGED <<running, active, selectedCrypto, sma, rsi, macd, portfolio, activeOrders, market, pending,
                   published, nextId, ticks, livePlaced, execOk, sigLog>>

NextLedger ==
    \/ \E side \in {"BUY", "SELL"}, amount \in TradeAmounts, price \in TradePrices :
          LedgerRecordTrade(side, amount, price)
    \/ LedgerReset

SpecLedger == InitLedger /\ [][NextLedger]_vars

-----------------------------------------------------------------------------
(* The strategy manager: strategies started, updated and stopped by name,
   and the orders of the started strategies executed by the engine *)

\* the names of the requests: the registered strategies and an unknown one
StrategyNames == Strategies \cup {"arbitrage"}

\* an account that covers the orders of the strategies
FundedPortfolio ==
    [c \in Currencies |-> IF c = "USD" THEN R(1000) ELSE IF c = "BTC" THEN R(1) ELSE Zero]

InitLifecycle ==
    /\ running = "sma"
    /\ active = {}
    /\ selectedCrypto = BTC
    /\ sma  = SmaInit(2, "stopped", TRUE)
    /\ rsi  = RsiInit(2, "stopped", TRUE)
    /\ macd = MacdInit(1, 2, 2, "stopped", TRUE)
    /\ portfolio = FundedPortfolio
    /\ perf = PerfInit
    /\ positions = NoPositions
    /\ activeOrders = 0
    /\ market = R(100)
    /\ pending = {}
    /\ published = <<>>
    /\ nextId = 0
    /\ ticks = 0
    /\ updates = 0
    /\ livePlaced = 0
    /\ execOk = 0
    /\ sigLog = <<>>
    /\ now = 0
    /\ last = [act |-> "new", name |-> "none", error |-> "", set |-> "absent"]

SetNamed(s, st) ==
    /\ sma'  = IF s = "sma"  THEN st ELSE sma
    /\ rsi'  = IF s = "rsi"  THEN st ELSE rsi
    /\ macd' = IF s = "macd" THEN st ELSE macd

\* new StrategyClass(parameters) with parameters.mode = m, engine injected
NewStrategy(s, m) ==
    CASE s = "sma" -> SmaInit(2, m, TRUE)
      [] s = "rsi" -> RsiInit(2, m, TRUE)
      [] OTHER     -> MacdInit(1, 2, 2, m, TRUE)

\* faulty variant: a request that throws after it reset the ledger
RejectedAfterReset(act, name, error) ==
    /\ last' = [act |-> act, name |-> name, error |-> error, set |-> "absent"]
    /\ perf' = PerfInit
    /\ positions' = NoPositions
    /\ UNCHANGED <<active, sma, rsi, macd, now>>

\* a request that throws: nothing but the answer to the caller
Rejected(act, name, error) ==
    /\ last' = [act |-> act, name |-> name, error |-> error, set |-> "absent"]
    /\ UNCHANGED <<active, sma, rsi, macd, perf, positions, now>>

\* number of requests and executed orders in one behaviour
MaxRequests == 4

LifecycleFrame ==
    /\ updates < MaxRequests
    /\ updates' = updates + 1
    /\ UNCHANGED <<running, selectedCrypto, portfolio, market, pending, published, ticks, livePlaced,
                   execOk, sigLog>>

\* StrategyManager.startStrategy(strategyName, {mode: m})
StartStrategy(name, m) ==
    /\ LifecycleFrame
    /\ UNCHANGED <<activeOrders, nextId>>
    /\ IF name \notin Strategies THEN Rejected("start", name, "not found")
       ELSE IF name \in active THEN Rejected("start", name, "already running")
       ELSE /\ SetNamed(name, NewStrategy(name, m))
            /\ \E t \in ClockReadings : ResetAt(t)
            /\ active' = active \cup {name}
            /\ last' = [act |-> "start", name |-> name, error |-> "", set |-> m]

\* StrategyManager.stopStrategy(strategyName)
StopStrategy(name) ==
    /\ LifecycleFrame
    /\ UNCHANGED <<activeOrders, nextId>>
    /\ IF name \notin active THEN Rejected("stop", name, "not running")
       ELSE /\ active' = active \ {name}
            /\ last' = [act |-> "stop", name |-> name, error |-> "", set |-> "absent"]
            /\ UNCHANGED <<sma, rsi, macd, perf, positions, now>>

\* StrategyManager.updateStrategy(strategyName, parameters)
UpdateStrategy(name, prm) ==
    /\ LifecycleFrame
    /\ UNCHANGED <<activeOrders, nextId>>
    /\ IF name \notin active THEN Rejected("update", name, "not running")
       ELSE /\ SetNamed(name, UpdateParametersOf(name, prm))
            /\ last' = [act |-> "update", name |-> name, error |-> "", set |-> prm.mode]
            /\ UNCHANGED <<active, perf, positions, now>>

\* the order of a started strategy: the call of executeTrade in flight
OrderOf(st, type) ==
    [id |-> nextId + 1, type |-> type, price |-> market, amount |-> st.tradeAmount,
     prevPos |-> "none", stage |-> "exec"]

ExecutedCommit(s, st, t, e) ==
    /\ perf' = e.pd
    /\ positions' = e.pos
    /\ SetNamed(s, ExecuteTradeSettle(s, st, t, e.result).st)

\* executeTrade of a started strategy, the exchange filling the order: the
\* engine records the trade in the ledger, the strategy stores it
ExecuteTrade(s, type) ==
    /\ LifecycleFrame
    /\ s \in active
    /\ s = "sma" => sma.mode = "active"
    /\ ExecuteTradeStart(StratOf(s), type, portfolio) = "placed"
    /\ ExecutedCommit(s, StratOf(s), OrderOf(StratOf(s), type),
                      EngineSettle(perf, positions, OrderOf(StratOf(s), type),
                                   [thrown |-> FALSE, fill |-> "market", tracked |-> TRUE],
                                   market))
    /\ activeOrders' = activeOrders + 1
    /\ nextId' = nextId + 1
    /\ last' = [act |-> "trade", name |-> s, error |-> "", set |-> "absent"]
    /\ UNCHANGED <<active, now>>

ModeUpdates == { [NoParams EXCEPT !.mode = m] : m \in Modes } \cup
               { [NoParams EXCEPT !.tradeAmount = Rat(2, 100)] }

NextLifecycle ==
    \/ \E name \in StrategyNames, m \in Modes : StartStrategy(name, m)
    \/ \E name \in StrategyNames : StopStrategy(name)
    \/ \E name \in StrategyNames, prm \in ModeUpdates : UpdateStrategy(name, prm)
    \/ \E s \in Strategies, type \in {"buy", "sell"} : ExecuteTrade(s, type)

SpecLifecycle == InitLifecycle /\ [][NextLifecycle]_vars

-----------------------------------------------------------------------------
(* The strategy manager when strategy.start() of a new strategy rejects *)

\* StrategyManager.startStrategy(strategyName, {mode: m}) for a registered
\* strategy that is not running, `await strategy.start()` throwing: the
\* statements before the await have run, the error reaches the caller
StartStrategyStartFails(name, m) ==
    /\ LifecycleFrame
    /\ UNCHANGED <<activeOrders, nextId>>
    /\ name \in Strategies
    /\ name \notin active
    /\ SetNamed(name, NewStrategy(name, m))
    /\ \E t \in ClockReadings : ResetAt(t)
    /\ active' = active \cup {name}
    /\ last' = [act |-> "start", name |-> name, error |-> "start failed", set |-> m]

NextStart ==
    \/ NextLifecycle
    \/ \E name \in Strategies, m \in Modes : StartStrategyStartFails(name, m)

SpecStart == InitLifecycle /\ [][NextStart]_vars

-----------------------------------------------------------------------------
(* The engine's order calls under the risk manager, within one day *)

\* order sizes within the position size limit at the risk price of BTC-USD
OrderAmounts == {Rat(1, 100), Rat(2, 100)}

\* ticker prices of BTC-USD
RiskPrices == {R(47000), R(50000)}

\* an engine with a loaded portfolio and a first ticker price, no strategy started
InitRisk ==
    /\ running = "sma"
    /\ active = {}
    /\ selectedCrypto = BTC
    /\ sma  = SmaInit(2, "stopped", TRUE)
    /\ rsi  = RsiInit(2, "stopped", TRUE)
    /\ macd = MacdInit(1, 2, 2, "stopped", TRUE)
    /\ portfolio = FundedPortfolio
    /\ market = R(50000)
    /\ perf = PerfInit
    /\ positions = NoPositions
    /\ activeOrders = 0
    /\ pending = {}
    /\ published = <<>>
    /\ nextId = 0
    /\ ticks = 0
    /\ updates = 0
    /\ livePlaced = 0
    /\ execOk = 0
    /\ sigLog = <<>>
    /\ now = 0
    /\ last = [act |-> "new", amount |-> Zero, approved |-> FALSE, recorded |-> FALSE]

RiskFrame ==
    /\ updates < MaxRequests
    /\ updates' = updates + 1
    /\ UNCHANGED <<running, active, selectedCrypto, sma, rsi, macd, pending, published, nextId, ticks,
                   livePlaced, execOk, sigLog, now>>

\* CoinbaseService: a ticker message of the product
RiskTick(price) ==
    /\ RiskFrame
    /\ market' = price
    /\ last' = [act |-> "tick", amount |-> Zero, approved |-> FALSE, recorded |-> FALSE]
    /\ UNCHANGED <<portfolio, perf, positions, activeOrders>>

\* TradingEngine.loadPortfolio
LoadPortfolio(pf) ==
    /\ RiskFrame
    /\ portfolio' = pf
    /\ last' = [act |-> "load", amount |-> Zero, approved |-> FALSE, recorded |-> FALSE]
    /\ UNCHANGED <<market, perf, positions, activeOrders>>

RiskCheck(type, amount, pf) ==
    IF type = "buy" THEN CheckBuyOrder(BTC, amount, NULL, pf)
    ELSE CheckSellOrder(BTC, amount, NULL, pf)

EngineCommit(type, amount, resp, e) ==
    /\ perf' = e.pd
    /\ positions' = e.pos
    /\ activeOrders' = IF ~resp.thrown /\ resp.tracked THEN activeOrders + 1
                       ELSE activeOrders
    /\ last' = [act |-> type, amount |-> amount, approved |-> TRUE,
                recorded |-> e.result.success]

\* TradingEngine.executeBuyOrder / executeSellOrder (productId, amount), the
\* exchange answering resp
EngineExecute(type, amount, resp) ==
    /\ RiskFrame
    /\ IF RiskCheck(type, amount, portfolio)
       THEN EngineCommit(type, amount, resp,
                EngineSettle(perf, positions, [type |-> type, amount |-> amount],
                             resp, market))
       ELSE /\ last' = [act |-> type, amount |-> amount, approved |-> FALSE,
                        recorded |-> FALSE]
            /\ UNCHANGED <<perf, positions, activeOrders>>
    /\ UNCHANGED <<portfolio, market>>

NextRisk ==
    \/ \E price \in RiskPrices : RiskTick(price)
    \/ \E pf \in Portfolios : LoadPortfolio(pf)
    \/ \E type \in {"buy", "sell"}, amount \in OrderAmounts, resp \in Responses :
          EngineExecute(type, amount, resp)

SpecRisk == InitRisk /\ [][NextRisk]_vars

-----------------------------------------------------------------------------
(* A long session of one strategy: the ledger records its executed orders,
   a BUY of 1 at 100 when nothing is held and a SELL of 1 at 250 otherwise *)

\* trades recorded beyond the capacity of the trades list
MaxOver == 2

SessionFrame ==
    UNCHANGED <<running, active, selectedCrypto, sma, rsi, macd, portfolio, activeOrders, market, pending,
                published, nextId, ticks, updates, livePlaced, execOk, sigLog, now>>

SessionBuy ==
    /\ perf.totalTrades < LedgerCap + MaxOver
    /\ BTC \notin DOMAIN positions
    /\ LedgerCommit(RecordTrade(perf, positions, BTC, "BUY", R(1), R(100), Zero,
                                [p \in Products |-> market]),
                    "BUY", R(1), R(100))
    /\ SessionFrame

SessionSell ==
    /\ perf.totalTrades < LedgerCap + MaxOver
    /\ BTC \in DOMAIN positions
    /\ LedgerCommit(RecordTrade(perf, positions, BTC, "SELL", R(1), R(250), Zero,
                                [p \in Products |-> market]),
                    "SELL", R(1), R(250))
    /\ SessionFrame

NextSession == SessionBuy \/ SessionSell

SpecSession == InitLedger /\ [][NextSession]_vars

-----------------------------------------------------------------------------
(* The signals list of a strategy: generateBuySignal / generateSellSignal of
   the strategy contract, called on alternating crossovers; the step record
   holds the strategy's signals, lastSignal and position *)

\* this.maxSignals
MaxSignals == 1000

\* faulty variant: the list is never cut
PushSignalUnbounded(signals, signal) == Append(signals, signal)

\* this.signals.push(signal), then the cut to the last maxSignals entries
PushSignal(signals, signal) ==
    IF Len(signals) + 1 > MaxSignals
    THEN LastK(Append(signals, signal), MaxSignals)
    ELSE Append(signals, signal)

\* the signalData of a crossover
SignalData(reason, price) == [reason |-> reason, price |-> price, confidence |-> 100]

InitSignals ==
    /\ Idle
    /\ last = [act |-> "new", data |-> NULL, signals |-> <<>>, lastSignal |-> NULL,
               position |-> "none"]

\* generateBuySignal / generateSellSignal(signalData), then the position set
\* by generateSignals
GenerateSignal(type, data, position) ==
    /\ nextId < MaxSignals + MaxOver
    /\ nextId' = nextId + 1
    /\ last' = [act |-> type, data |-> data,
                signals |-> PushSignal(last.signals,
                                [type |-> type, strategy |-> "Simple Moving Average",
                                 data |-> data, productId |-> BTC]),
                lastSignal |-> [type |-> type, strategy |-> "Simple Moving Average",
                                data |-> data, productId |-> BTC],
                position |-> position]
    /\ UNCHANGED <<running, active, selectedCrypto, sma, rsi, macd, portfolio, perf, positions,
                   activeOrders, market, pending, published, ticks, updates, livePlaced,
                   execOk, sigLog, now>>

GenerateBuySignal ==
    /\ last.position # "long"
    /\ GenerateSignal("buy", SignalData("Price crossed above SMA", R(101)), "long")

GenerateSellSignal ==
    /\ last.position # "short"
    /\ GenerateSignal("sell", SignalData("Price crossed below SMA", R(96)), "short")

NextSignals == GenerateBuySignal \/ GenerateSellSignal

SpecSignals == InitSignals /\ [][NextSignals]_vars

-----------------------------------------------------------------------------
(* A strategy fed a sequence of price ticks, no order being answered *)

\* number of price ticks of one feed
MaxFeed == 5

FeedTickPrices == {R(96), R(97), R(98), R(100), R(101)}

FeedTick ==
    /\ ticks < MaxFeed
    /\ \E price \in FeedTickPrices : Deliver(price)

NextFeed == FeedTick

SpecFeed == Init /\ [][NextFeed]_vars

-----------------------------------------------------------------------------
(* The SMA strategy fed price ticks while its period is changed *)

\* periods set by updateParameters: below and above the initial period 2
HistoryPeriods == {1, 3}

InitHistory == Init /\ running = "sma"

SetPeriod(period) == UpdateParameters([NoParams EXCEPT !.period = period])

NextHistory ==
    \/ FeedTick
    \/ \E period \in HistoryPeriods : SetPeriod(period)

SpecHistory == InitHistory /\ [][NextHistory]_vars

-----------------------------------------------------------------------------
(* The RSI strategy fed price ticks while its period is changed *)

InitRsiWindow == Init /\ running = "rsi"

SpecRsiWindow == InitRsiWindow /\ [][NextHistory]_vars

-----------------------------------------------------------------------------
(* A strategy fed price ticks before and after its indicator can be computed,
   one updateParameters request arriving in between *)

\* the update requests: a new period, alone or with a restart of the session
WarmupUpdates(s) ==
    IF s = "sma" THEN { [NoParams EXCEPT !.period = 3] }
    ELSE IF s = "rsi" THEN { [NoParams EXCEPT !.period = 4],
                             [NoParams EXCEPT !.period = 4, !.mode = "simulation"] }
    ELSE { [NoParams EXCEPT !.mode = "simulation"] }

NextWarmup ==
    \/ FeedTick
    \/ \E prm \in WarmupUpdates(running) : UpdateParameters(prm)

SpecWarmup == Init /\ [][NextWarmup]_vars

-----------------------------------------------------------------------------
(* The RSI strategy behind the price stream: ticks of several products arrive
   and the selected product can be changed *)

ETH == "ETH-USD"

\* the products of the price stream
StreamProducts == {BTC, ETH}

InitProducts == Init /\ running = "rsi"

\* POST /selected-crypto
SelectCrypto(crypto) ==
    /\ crypto # selectedCrypto
    /\ selectedCrypto' = crypto
    /\ last' = [act |-> "select", mode |-> Mode, outcomes |-> <<>>, crossovers |-> 0]
    /\ UNCHANGED <<running, active, sma, rsi, macd, portfolio, perf, positions,
                   activeOrders, market, pending, published, nextId, ticks, updates,
                   livePlaced, execOk, sigLog, now>>

\* a 'price' event of the stream: forwarded to the active strategies when it
\* is of the selected product, skipped otherwise
PriceEvent(productId, price) ==
    /\ ticks < MaxFeed
    /\ IF productId = selectedCrypto
       THEN Deliver(price)
       ELSE /\ ticks' = ticks + 1
            /\ last' = [act |-> "skipped", mode |-> Mode, outcomes |-> <<>>,
                        crossovers |-> 0, productId |-> productId]
            /\ UNCHANGED <<running, active, selectedCrypto, sma, rsi, macd, portfolio,
                           perf, positions, activeOrders, market, pending, published,
                           nextId, updates, livePlaced, execOk, sigLog, now>>

NextProducts ==
    \/ \E crypto \in StreamProducts : SelectCrypto(crypto)
    \/ \E productId \in StreamProducts, price \in FeedTickPrices :
          PriceEvent(productId, price)

SpecProducts == InitProducts /\ [][NextProducts]_vars

-----------------------------------------------------------------------------
(* The RSI strategy over a feed long enough for repeated signals, one mode
   update arriving in between, no order being answered *)

\* number of price ticks of the feed
MaxBand == 7

InitRsiBand == Init /\ running = "rsi"

BandTick ==
    /\ ticks < MaxBand
    /\ \E price \in Prices : Deliver(price)

NextRsiBand ==
    \/ BandTick
    \/ \E m \in Modes : UpdateParameters([NoParams EXCEPT !.mode = m])

SpecRsiBand == InitRsiBand /\ [][NextRsiBand]_vars

-----------------------------------------------------------------------------
(* Tick dispatch to several active strategies, a price handler throwing *)

\* the iteration order of activeStrategies: the order of the starts
StartOrder == <<"sma", "rsi", "macd">>

OrderOfStart(s) == CHOOSE i \in DOMAIN StartOrder : StartOrder[i] = s

InitDispatch ==
    /\ running = "sma"
    /\ active = Strategies
    /\ selectedCrypto = BTC
    /\ sma  = SmaInit(2, "stopped", TRUE)
    /\ rsi  = RsiInit(2, "stopped", TRUE)
    /\ macd = MacdInit(1, 2, 2, "stopped", TRUE)
    /\ portfolio = FundedPortfolio
    /\ perf = PerfInit
    /\ positions = NoPositions
    /\ activeOrders = 0
    /\ market = NULL
    /\ pending = {}
    /\ published = <<>>
    /\ nextId = 0
    /\ ticks = 0
    /\ updates = 0
    /\ livePlaced = 0
    /\ execOk = 0
    /\ sigLog = <<>>
    /\ now = 0
    /\ last = [act |-> "new", thrower |-> "none", price |-> NULL]

\* the events a handler in mode 'stopped' emits: crossovers, and the signals
\* of the RSI strategy, which carry no trade
PublishStopped(ev) ==
    [i \in 1..Len(ev) |->
        IF ev[i].kind = "crossover"
        THEN [kind |-> "crossover", id |-> 0, type |-> ev[i].type, result |-> "none"]
        ELSE PublishedSignal(0, ev[i].type, "none")]

\* the subscriber callback of index.js for a tick of the selected product:
\* the handlers are called in the order of the starts inside one try block
\* (that of notifySubscribers), so the handler that throws ends the loop; it
\* throws before or after it updated its own strategy
DispatchTick(price, thrower, updated) ==
    /\ ticks < MaxFeed
    /\ thrower = "none" => updated
    /\ LET called(s) == thrower = "none" \/ OrderOfStart(s) <= OrderOfStart(thrower)
           done(s)   == called(s) /\ (s # thrower \/ updated)
           heard(s)  == called(s) /\ s # thrower
       IN  /\ sma'  = IF done("sma")  THEN OnPriceUpdate("sma", price).st  ELSE sma
           /\ rsi'  = IF done("rsi")  THEN OnPriceUpdate("rsi", price).st  ELSE rsi
           /\ macd' = IF done("macd") THEN OnPriceUpdate("macd", price).st ELSE macd
           /\ published' = published
                \o (IF heard("sma")  THEN PublishStopped(OnPriceUpdate("sma", price).ev)
                    ELSE <<>>)
                \o (IF heard("rsi")  THEN PublishStopped(OnPriceUpdate("rsi", price).ev)
                    ELSE <<>>)
                \o (IF heard("macd") THEN PublishStopped(OnPriceUpdate("macd", price).ev)
                    ELSE <<>>)
    /\ market' = price
    /\ ticks' = ticks + 1
    /\ last' = [act |-> "dispatch", thrower |-> thrower, price |-> price]
    /\ UNCHANGED <<running, active, selectedCrypto, portfolio, perf, positions,
                   activeOrders, pending, nextId, updates, livePlaced, execOk, sigLog,
                   now>>

NextDispatch ==
    \E price \in FeedPrices("sma"), thrower \in Strategies \cup {"none"},
       updated \in BOOLEAN : DispatchTick(price, thrower, updated)

SpecDispatch == InitDispatch /\ [][NextDispatch]_vars

-----------------------------------------------------------------------------
(* Mode gating *)

\* C1: while the mode of the running strategy is 'simulation', no step
\* places an order at the exchange (placeBuyOrder / placeSellOrder)
C1_NoLiveOrderInSimulation ==
    [][Mode = "simulation" => livePlaced' = livePlaced]_vars

\* C2: while the mode is 'stopped' (before and after a step), the step
\* records no trade, neither in the strategy's list nor in the ledger, also
\* not for an execution that was started before the mode became 'stopped'
C2_NoTradeWhileStopped ==
    [][(Mode = "stopped" /\ Mode' = "stopped")
         => /\ Len(Trades') <= Len(Trades)
            /\ Len(perf'.trades) <= Len(perf.trades)
            /\ perf'.totalTrades <= perf.totalTrades]_vars

Succeeded(o) == o.outcome = "simOk" \/ o.outcome = "ok"

\* C3: in simulation mode every trade signal whose fill succeeds in a step
\* adds exactly one record to the strategy's trade list in that step
C3_SimulatedTradesRecorded ==
    [][(Mode = "simulation" /\ last'.act \in {"tick", "exec"})
         => Len(Trades') = Len(Trades) + Len(SelectSeq(last'.outcomes, Succeeded))]_vars

\* C4: in active mode a step in which an executeBuyOrder / executeSellOrder
\* call succeeds records exactly one trade in the strategy's list and one in
\* the ledger, no other step records any, and the trades recorded never
\* exceed the successful calls
C4_OneTradePerSuccessfulCall ==
    [][ /\ Mode' = "active" =>
               Len(Trades') <= execOk' /\ Len(perf'.trades) <= execOk'
        /\ Mode = "active" =>
               IF execOk' = execOk + 1
               THEN /\ Len(Trades') = Len(Trades) + 1
                    /\ Len(perf'.trades) = Len(perf.trades) + 1
                    /\ perf'.totalTrades = perf.totalTrades + 1
               ELSE /\ execOk' = execOk
                    /\ Len(Trades') <= Len(Trades)
                    /\ Len(perf'.trades) <= Len(perf.trades)
                    /\ perf'.totalTrades <= perf.totalTrades ]_vars

\* an execution answered with success in active mode, its trade stored twice
C4_Witness ==
    /\ last.act = "exec"
    /\ last.mode = "active"
    /\ last.outcomes[1].outcome = "ok"
    /\ Mode = "active"
    /\ Len(Trades) >= 1
    /\ Len(perf.trades) >= 1

-----------------------------------------------------------------------------
(* Failed executions *)

FailedInTurn(o) == o.outcome \in {"simFail", "noEngine", "rejected"}
Failed(o) == FailedInTurn(o) \/ o.outcome = "threw"

\* C5: after a tick whose trade signal failed to execute in the same turn
\* (risk rejection, insufficient balance, no engine), the strategy's position
\* is the one it had before the signal
C5_PositionRestoredOnFailure ==
    last.act = "tick" =>
        \A i \in 1..Len(last.outcomes) :
            FailedInTurn(last.outcomes[i]) => Position = last.outcomes[i].prevPos

\* C6: a step in which the execution of a trade signal fails (risk rejection,
\* insufficient balance, the exchange call throws) leaves the ledger's
\* counters, trades and positions and the strategy's trade list unchanged
C6_NoTradeRecordedOnFailure ==
    [][(/\ last'.act \in {"tick", "exec"}
        /\ last'.outcomes # <<>>
        /\ \A i \in 1..Len(last'.outcomes) : Failed(last'.outcomes[i]))
         => perf' = perf /\ positions' = positions /\ Trades' = Trades]_vars

\* the exchange call of a placed order threw
C6_Witness ==
    /\ last.act = "exec"
    /\ last.outcomes[1].outcome = "threw"
    /\ livePlaced >= 1

\* C7: an exception of the exchange call is turned into a failure result:
\* the signal task is fulfilled, never rejected, and the signal is published
\* with the failed trade
C7_ExecutionExceptionCaught ==
    \A i \in 1..Len(last.outcomes) :
        /\ last.outcomes[i].task # "rejected"
        /\ last.outcomes[i].outcome = "threw" =>
              /\ last.outcomes[i].task = "fulfilled"
              /\ published # <<>>
              /\ published[Len(published)] =
                     PublishedSignal(last.outcomes[i].id, last.outcomes[i].type, "failure")

\* the exchange call threw and the signal was published with the failure
C7_Witness ==
    /\ last.act = "exec"
    /\ last.outcomes[1].outcome = "threw"
    /\ last.outcomes[1].task = "fulfilled"
    /\ published[Len(published)].result = "failure"

-----------------------------------------------------------------------------
(* Signals *)

\* the execution of the most recent trade signal is still pending
LatestPending ==
    /\ sigLog # <<>>
    /\ \E t \in pending :
          t.id = nextId /\ t.stage = "exec" /\ t.type = sigLog[Len(sigLog)].type

\* C8: (SMA, RSI) a tick that arrives while the execution of the most recent
\* trade signal is pending, with no position reset in between, emits no
\* trade signal of the same direction
C8_NoSecondSignalWhilePending ==
    [][(running \in {"sma", "rsi"} /\ last'.act = "tick" /\ LatestPending)
         => \A i \in 1..Len(last'.outcomes) :
                last'.outcomes[i].type # sigLog[Len(sigLog)].type]_vars

\* a tick was handled while the execution of the latest buy signal is pending
C8_Witness ==
    /\ running \in {"sma", "rsi"}
    /\ last.act = "tick"
    /\ last.outcomes = <<>>
    /\ LatestPending
    /\ sigLog[Len(sigLog)].type = "buy"
    /\ Position = "long"

\* C9: (SMA) trade signals are emitted only in simulation or active mode, and
\* between two position resets they alternate buy, sell, buy, ...
C9_SignalsAlternate ==
    running = "sma" =>
        /\ (last.act = "tick" /\ ~TradingMode(last.mode)) => last.outcomes = <<>>
        /\ \A i \in 1..Len(sigLog) :
               sigLog[i].type = IF i % 2 = 1 THEN "buy" ELSE "sell"

\* the directions of the crossover events published so far
CrossoverLog ==
    [i \in 1..Len(SelectSeq(published, IsCrossover)) |->
        SelectSeq(published, IsCrossover)[i].type]

\* C10: (scenario) a fresh SMA strategy with period 5 in simulation mode, fed
\* the whole scenario sequence, has published one BUY crossover followed by
\* one SELL crossover
C10_ScenarioCrossovers ==
    (sma.mode = "simulation" /\ sma.period = 5 /\ ticks = Len(ScenarioFeed))
        => CrossoverLog = <<"BUY", "SELL">>

-----------------------------------------------------------------------------
(* Movement filter *)

\* the relative movement |price - lastSignalPrice| / lastSignalPrice
Movement(lastSignalPrice, price) ==
    RDiv(RAbs(RSub(price, lastSignalPrice)), lastSignalPrice)

\* C11: the movement filter allows the first signal of a product whatever
\* minMovementPercent is, otherwise it answers true exactly when the relative
\* movement from the last signal price is at least minMovementPercent, and
\* for a fixed last signal price a larger movement never turns true into false
C11_MovementFilter ==
    last.act = "filter" =>
        /\ last.lastSignalPrice = NULL => last.result
        /\ last.lastSignalPrice # NULL =>
              /\ last.result <=>
                    RLe(last.minMovementPercent,
                        Movement(last.lastSignalPrice, last.currentPrice))
              /\ (/\ last.result
                  /\ RLe(Movement(last.lastSignalPrice, last.currentPrice),
                         Movement(last.lastSignalPrice, last.fartherPrice)))
                    => last.resultFarther

-----------------------------------------------------------------------------
(* RSI and MACD signals *)

HasSignal(outcomes, type) == \E i \in 1..Len(outcomes) : outcomes[i].type = type

\* C12: (RSI) on every tick on which the RSI is computed, a buy signal is
\* generated if RSI <= oversoldThreshold and the position is not long, and a
\* sell signal if RSI >= overboughtThreshold and the position is not short,
\* for every value of the RSI including 0
C12_RsiThresholdSignals ==
    [][(/\ running = "rsi"
        /\ last'.act = "tick"
        /\ Len(rsi'.gains) >= rsi'.period
        /\ rsi'.rsi # NULL)
         => /\ (RLe(rsi'.rsi, rsi'.oversoldThreshold) /\ rsi.position # "long")
                  => HasSignal(last'.outcomes, "buy")
            /\ (RLe(rsi'.overboughtThreshold, rsi'.rsi) /\ rsi.position # "short")
                  => HasSignal(last'.outcomes, "sell")]_vars

\* the default of minMovementPercent
DefaultMinMovementPercent == Rat(5, 1000)

\* C13: (RSI) no signal is emitted at a price whose relative distance from
\* the price of the previous signal is below minMovementPercent
C13_RsiMovementFilter ==
    [][(running = "rsi" /\ last'.act = "tick" /\ sigLog # <<>>)
         => \A i \in 1..Len(last'.outcomes) :
                RLe(DefaultMinMovementPercent,
                    Movement(sigLog[Len(sigLog)].price, last'.outcomes[i].price))]_vars

\* C14: (MACD) on every tick whose histogram is > 0 after a histogram <= 0 a
\* bullish crossover is detected, and whose histogram is < 0 after a
\* histogram >= 0 a bearish one: if the movement filter passes, the position
\* and the last signal price are updated and, in simulation or active mode,
\* the trade signal is generated; also when macdLine or signalLine is 0
C14_MacdCrossoverDetected ==
    [][(/\ running = "macd"
        /\ last'.act = "tick"
        /\ macd'.histogram # NULL
        /\ macd'.prevHistogram # NULL
        /\ MacdShould(macd, market'))
         => /\ (RLe(macd'.prevHistogram, Zero) /\ RLt(Zero, macd'.histogram))
                  => /\ macd'.position = "long"
                     /\ macd'.lastSignalPrice = market'
                     /\ TradingMode(macd.mode) => HasSignal(last'.outcomes, "buy")
            /\ (RLe(Zero, macd'.prevHistogram) /\ RLt(macd'.histogram, Zero))
                  => /\ macd'.position = "short"
                     /\ macd'.lastSignalPrice = market'
                     /\ TradingMode(macd.mode) => HasSignal(last'.outcomes, "sell")]_vars

-----------------------------------------------------------------------------
(* Indicators *)

\* the prices of the trailing window of k changes lose nothing
NoLoss(prices, k) ==
    \A i \in (Len(prices) - k)..(Len(prices) - 1) : RLe(prices[i], prices[i + 1])

\* C15: with at least period + 1 prices the RSI is between 0 and 100, and
\* it is 100 exactly when the trailing window holds no loss; with fewer
\* prices it is null (TechnicalIndicators.rsi and the RSI strategy alike)
C15_RsiRange ==
    last.act = "rsi" =>
        /\ last.strategyValue = last.value
        /\ IF Len(last.prices) < last.period + 1
           THEN last.value = NULL
           ELSE /\ last.value # NULL
                /\ RLe(Zero, last.value)
                /\ RLe(last.value, R(100))
                /\ (last.value = R(100)) <=> NoLoss(last.prices, last.period)

\* an RSI strictly between 0 and 100, and an RSI of 100
C15_Witness ==
    /\ last.act = "rsi"
    /\ last.prices = <<R(3), R(5), R(4), R(5)>>
    /\ last.period = 3
    /\ last.value = R(75)
    /\ last.strategyValue = R(75)

RECURSIVE SumLast(_, _)
SumLast(prices, k) ==
    IF k = 0 THEN Zero
    ELSE RAdd(prices[Len(prices)], SumLast(SubSeq(prices, 1, Len(prices) - 1), k - 1))

\* C16: sma(prices, period) is null when there are fewer than period prices
\* and otherwise the arithmetic mean of the last period prices, e.g.
\* sma([1,2,3,4,5], 3) = 4; the sma of the SMA strategy is the same value
C16_SmaMean ==
    last.act = "sma" =>
        /\ last.strategyValue = last.value
        /\ IF Len(last.prices) < last.period
           THEN last.value = NULL
           ELSE last.value = RDiv(SumLast(last.prices, last.period), R(last.period))
        /\ (last.prices = <<R(1), R(2), R(3), R(4), R(5)>> /\ last.period = 3)
              => last.value = R(4)

\* the documented example: sma([1,2,3,4,5], 3) = 4
C16_Witness ==
    /\ last.act = "sma"
    /\ last.prices = <<R(1), R(2), R(3), R(4), R(5)>>
    /\ last.period = 3
    /\ last.value = R(4)
    /\ last.strategyValue = R(4)

\* the trade stored by the latest recordTrade call
LatestTrade(pd) == pd.trades[Len(pd.trades)]

\* C17: recordTrade for a SELL against a stored position realizes
\* soldAmount * (sellPrice - avgPrice) with soldAmount = min(amount, held amount),
\* reduces the position by soldAmount keeping its avgPrice, and deletes the
\* position when nothing remains; BUY 1@100, BUY 1@200, SELL 1@250 sells at an
\* avgPrice of 150, realizes 100 and leaves 1 at avgPrice 150
C17_SellRealizesAgainstAvgCost ==
    [][ (last'.act = "recordTrade" /\ last'.side = "SELL" /\ BTC \in DOMAIN positions) =>
          /\ LatestTrade(perf').realizedPnL =
                RMul(RMin(last'.amount, positions[BTC].amount),
                     RSub(Num(last'.price), positions[BTC].avgPrice))
          /\ perf'.realizedPnL = RAdd(perf.realizedPnL, LatestTrade(perf').realizedPnL)
          /\ IF RLt(last'.amount, positions[BTC].amount)
             THEN /\ BTC \in DOMAIN positions'
                  /\ positions'[BTC].amount =
                        RSub(positions[BTC].amount, last'.amount)
                  /\ positions'[BTC].avgPrice = positions[BTC].avgPrice
             ELSE BTC \notin DOMAIN positions'
          /\ ( /\ perf.totalTrades = 2
               /\ perf.trades[1].side = "BUY" /\ perf.trades[1].amount = R(1)
               /\ perf.trades[1].price = R(100)
               /\ perf.trades[2].side = "BUY" /\ perf.trades[2].amount = R(1)
               /\ perf.trades[2].price = R(200)
               /\ last'.amount = R(1) /\ last'.price = R(250) )
             => /\ positions[BTC].avgPrice = R(150)
                /\ LatestTrade(perf').realizedPnL = R(100)
                /\ positions'[BTC].amount = R(1)
                /\ positions'[BTC].avgPrice = R(150)
      ]_vars

\* C18: every stored position has amount > 0, totalCost >= 0 and
\* avgPrice * amount = totalCost, and no position is stored before the first BUY
C18_StoredPositionsPositive ==
    /\ \A p \in DOMAIN positions :
          /\ RLt(Zero, positions[p].amount)
          /\ RLe(Zero, positions[p].totalCost)
          /\ RMul(positions[p].avgPrice, positions[p].amount) = positions[p].totalCost
    /\ perf.buyTrades = 0 => DOMAIN positions = {}

\* the sum of the realizedPnL of the SELL trades trades[lo..hi]
RECURSIVE SumSellPnL(_, _, _)
SumSellPnL(trades, lo, hi) ==
    IF lo > hi THEN Zero
    ELSE IF lo = hi
    THEN IF trades[lo].side = "SELL" THEN trades[lo].realizedPnL ELSE Zero
    ELSE RAdd(SumSellPnL(trades, lo, (lo + hi) \div 2),
              SumSellPnL(trades, (lo + hi) \div 2 + 1, hi))

\* C19 as stated: the ledger's realizedPnL is the sum of the realizedPnL of
\* the SELL trades held in its trades list
C19_RealizedPnLIsSumOfHeldSells ==
    perf.realizedPnL = SumSellPnL(perf.trades, 1, Len(perf.trades))

\* C19: every recordTrade call adds the realizedPnL of the trade it stores
\* (0 for a BUY) to the ledger's realizedPnL, and while no more than LedgerCap
\* trades have been recorded since the last reset the ledger's realizedPnL is
\* the sum of the realizedPnL of the SELL trades held in its trades list
C19_RealizedPnLIsSumOfRecordedSells ==
    [][ last'.act = "recordTrade" =>
          /\ perf'.realizedPnL =
                RAdd(perf.realizedPnL,
                     SumSellPnL(perf'.trades, Len(perf'.trades), Len(perf'.trades)))
          /\ perf'.totalTrades <= LedgerCap =>
                perf'.realizedPnL = SumSellPnL(perf'.trades, 1, Len(perf'.trades))
      ]_vars

\* a full trades list, nothing evicted yet, after 500 winning sells
C19_Witness ==
    /\ last.act = "recordTrade"
    /\ last.side = "SELL"
    /\ perf.totalTrades = LedgerCap
    /\ Len(perf.trades) = LedgerCap
    /\ perf.sellTrades = LedgerCap \div 2
    /\ perf.realizedPnL = R(150 * (LedgerCap \div 2))

\* all counters zero, no trades, maxDrawdown and peakEquity zero, no positions
Zeroed(pd, pos) ==
    /\ pd.totalTrades = 0 /\ pd.buyTrades = 0 /\ pd.sellTrades = 0
    /\ pd.winningTrades = 0 /\ pd.losingTrades = 0
    /\ pd.grossProfit = Zero /\ pd.grossLoss = Zero /\ pd.totalFees = Zero
    /\ pd.realizedPnL = Zero /\ pd.unrealizedPnL = Zero
    /\ pd.trades = <<>>
    /\ pd.maxDrawdown = Zero /\ pd.peakEquity = Zero
    /\ pos = NoPositions

\* C20 as stated: resetPerformanceData leaves a zeroed ledger, and a second
\* call in a row leaves the state the first call left
C20_ResetIdempotent ==
    [][ last'.act = "reset" =>
          /\ Zeroed(perf', positions')
          /\ last.act = "reset" => (perf' = perf /\ positions' = positions)
      ]_vars

\* C20: resetPerformanceData leaves a zeroed ledger whose sessionStartTime is
\* the time of the call, and a second call in a row leaves the state the first
\* call left except for sessionStartTime
C20_ResetIdempotentUpToSessionStart ==
    [][ last'.act = "reset" =>
          /\ Zeroed(perf', positions')
          /\ perf'.sessionStartTime = now'
          /\ perf'.sessionStartTime >= perf.sessionStartTime
          /\ last.act = "reset" =>
                /\ [perf' EXCEPT !.sessionStartTime = 0] =
                      [perf EXCEPT !.sessionStartTime = 0]
                /\ positions' = positions
      ]_vars

\* two resets in a row, at two readings of the clock, of a ledger that held a trade
C20_Witness ==
    /\ last.act = "reset"
    /\ last.calls = 2
    /\ last.cleared = 1
    /\ perf = PerformanceData(2)
    /\ positions = NoPositions

\* a session start: a strategy started, or the mode of a started strategy set
\* to simulation or active
SessionStart(step) ==
    /\ step.error = ""
    /\ \/ step.act = "start"
       \/ step.act = "update" /\ TradingMode(step.set)

\* C21: every session start, by startStrategy or by an updateStrategy that
\* sets the mode to simulation or active, leaves the shared ledger with its
\* counters, trades and positions cleared
C21_LedgerResetOnSessionStart ==
    [][ SessionStart(last') => Zeroed(perf', positions') ]_vars

\* C23: startStrategy with an unknown name or for a started strategy, and
\* stopStrategy / updateStrategy for a strategy that is not started, fail
\* with an error, and a request that fails leaves the active strategies and
\* the shared ledger as they were
C23_LifecycleErrorsChangeNothing ==
    [][ /\ last'.act \in {"start", "stop", "update"} =>
              last'.error =
                 IF last'.act = "start"
                 THEN IF last'.name \notin Strategies THEN "not found"
                      ELSE IF last'.name \in active THEN "already running" ELSE ""
                 ELSE IF last'.name \notin active THEN "not running" ELSE ""
        /\ last'.error # "" =>
              /\ active' = active
              /\ perf' = perf
              /\ positions' = positions
              /\ <<sma', rsi', macd'>> = <<sma, rsi, macd>>
      ]_vars

\* a second start of a started strategy, refused while the ledger holds a trade
C23_Witness ==
    /\ last.act = "start"
    /\ last.error = "already running"
    /\ last.name \in active
    /\ perf.totalTrades = 1
    /\ DOMAIN positions = {BTC}

\* the initialBuyGenerated flags of the SMA strategy, nothing for the others
InitialFlags(s, st) == IF s = "sma" THEN st.initialBuyGenerated ELSE <<>>

\* C22: right after updateParameters sets the mode to simulation or active the
\* strategy's own trade list is empty, its position of every product is
\* 'none' and (SMA) every initialBuyGenerated flag is false; setting the mode
\* to 'stopped' changes none of these
C22_ModeTransitionResetsStrategy ==
    [][ last'.act = "update" =>
          /\ TradingMode(last'.set) =>
                /\ Trades' = <<>>
                /\ Position' = "none"
                /\ running = "sma" =>
                      \A p \in Products :
                         /\ sma'.positions[p] = "none"
                         /\ sma'.initialBuyGenerated[p] = FALSE
          /\ last'.set = "stopped" =>
                /\ Mode' = "stopped"
                /\ Trades' = Trades
                /\ Position' = Position
                /\ InitialFlags(running, StratOf(running)') =
                      InitialFlags(running, StratOf(running))
      ]_vars

\* a strategy holding a position and a stored trade is set to simulation
C22_Witness ==
    /\ last.act = "update"
    /\ last.set = "simulation"
    /\ last.stored >= 1
    /\ last.held = "long"
    /\ Trades = <<>>
    /\ Position = "none"
    /\ Mode = "simulation"

\* C24: once the losses realized during the day have reached dailyLossLimit,
\* every buy order of that day is rejected by the risk manager
C24_DailyLossLimit ==
    [][ (last'.act = "buy" /\ RLe(DailyLossLimit, perf.grossLoss)) => ~last'.approved
      ]_vars

\* the value of a buy order in the risk check: amount * (price || default price)
OrderValue(amount) == RMul(amount, RiskCurrentPrice(BTC))

\* C25: an order is approved, placed and recorded only if the portfolio holds
\* the funds: a buy only if USD >= amount * price, a sell only if the held
\* base currency >= amount; a currency without an entry holds nothing
C25_BalanceChecks ==
    [][ (last'.act \in {"buy", "sell"} /\ (last'.approved \/ last'.recorded)) =>
          IF last'.act = "buy"
          THEN /\ portfolio["USD"] # NULL
               /\ RLe(OrderValue(last'.amount), portfolio["USD"])
          ELSE /\ portfolio["BTC"] # NULL
               /\ RLe(last'.amount, portfolio["BTC"])
      ]_vars

\* the trades list without its latest entry
Earlier(trades) == SubSeq(trades, 1, Len(trades) - 1)

\* C26: the trades list never holds more than LedgerCap trades; recordTrade
\* puts the new trade at its end, behind the trades it held, and a full list
\* loses its oldest trade
C26_TradeListBounded ==
    [][ last'.act = "recordTrade" =>
          /\ Len(perf'.trades) <= LedgerCap
          /\ Len(perf'.trades) =
                IF perf'.totalTrades <= LedgerCap THEN perf'.totalTrades ELSE LedgerCap
          /\ LatestTrade(perf').side = last'.side
          /\ LatestTrade(perf').amount = last'.amount
          /\ LatestTrade(perf').price = last'.price
          /\ Earlier(perf'.trades) =
                IF Len(perf.trades) < LedgerCap THEN perf.trades ELSE Tail(perf.trades)
      ]_vars

\* two trades beyond the capacity: the list is full and starts at the third trade
C26_Witness ==
    /\ last.act = "recordTrade"
    /\ perf.totalTrades = LedgerCap + 2
    /\ Len(perf.trades) = LedgerCap
    /\ perf.trades[1].side = "BUY"
    /\ LatestTrade(perf).side = "SELL"

\* C27: (SMA) the price history of a product never holds more than 2 * period
\* prices for the current period, and a tick puts its price at the end of the
\* history, behind the latest prices the history held
C27_SmaHistoryBounded ==
    [][ running = "sma" =>
          /\ Len(sma'.priceHistories[BTC]) <= 2 * sma'.period
          /\ last'.act = "tick" =>
                /\ sma'.priceHistories[BTC][Len(sma'.priceHistories[BTC])] = market'
                /\ Earlier(sma'.priceHistories[BTC]) =
                      LastK(sma.priceHistories[BTC], Len(sma'.priceHistories[BTC]) - 1)
      ]_vars

\* C28: generateBuySignal / generateSellSignal(data) appends one signal of
\* type 'buy' / 'sell' carrying data to the signals list, behind the signals
\* it held, and sets lastSignal to it; the list never holds more than
\* MaxSignals entries, a full list losing its oldest one
C28_SignalAppended ==
    [][ last'.act \in {"buy", "sell"} =>
          /\ Len(last'.signals) <= MaxSignals
          /\ Len(last'.signals) = IF nextId' <= MaxSignals THEN nextId' ELSE MaxSignals
          /\ last'.signals[Len(last'.signals)].type = last'.act
          /\ last'.signals[Len(last'.signals)].data = last'.data
          /\ last'.lastSignal = last'.signals[Len(last'.signals)]
          /\ Earlier(last'.signals) =
                IF Len(last.signals) < MaxSignals THEN last.signals
                ELSE Tail(last.signals)
      ]_vars

\* two signals beyond the capacity: the list is full and starts at the third signal
C28_Witness ==
    /\ last.act = "sell"
    /\ nextId = MaxSignals + 2
    /\ Len(last.signals) = MaxSignals
    /\ last.signals[1].type = "buy"
    /\ last.lastSignal.type = "sell"
    /\ last.lastSignal.data.price = R(96)

\* the indicator of the running strategy cannot be computed on the tick being
\* delivered: (SMA) the average of this tick or of the previous tick is null,
\* (RSI) fewer than `period` price changes were seen, this tick's included,
\* (MACD) slowEMA, signalLine or the previous histogram is missing, which is
\* the case on every tick before tick number slowPeriod + signalPeriod
InsufficientData ==
    CASE running = "sma" -> sma'.smas[BTC] = NULL \/ sma.lastSmas[BTC] = NULL
      [] running = "rsi" -> ticks' - 1 < rsi'.period
      [] OTHER -> \/ macd'.slowEMA = NULL
                  \/ macd'.signalLine = NULL
                  \/ macd'.prevHistogram = NULL
                  \/ ticks' < macd'.slowPeriod + macd'.signalPeriod

\* C29: a tick on which the indicator of the strategy cannot be computed
\* yields no crossover event and no trade signal
C29_InsufficientDataSkipsTick ==
    [][ (last'.act = "tick" /\ InsufficientData) =>
          (Len(last'.outcomes) = 0 /\ last'.crossovers = 0) ]_vars

\* C30: (RSI) a price event of a product other than BTC-USD, forwarded to the
\* strategy or not, leaves the price history, the gain and loss windows, the
\* RSI, the position and the trades of the strategy as they were and yields
\* no signal, no published event and no order
C30_RsiEvaluatesBtcOnly ==
    [][ ( \/ last'.act = "tick" /\ selectedCrypto # BTC
          \/ last'.act = "skipped" /\ last'.productId # BTC ) =>
          /\ rsi' = rsi
          /\ Len(last'.outcomes) = 0
          /\ nextId' = nextId
          /\ published' = published
          /\ pending' = pending
      ]_vars

\* C31: (RSI) after every tick and every updateParameters call the gains and
\* losses windows have the same length, at most `period`, and a tick that
\* emits a signal does so on an RSI computed from a window of exactly `period`
\* price changes
C31_RsiWindows ==
    [][ running = "rsi" =>
          /\ Len(rsi'.gains) = Len(rsi'.losses)
          /\ Len(rsi'.gains) <= rsi'.period
          /\ (last'.act = "tick" /\ Len(last'.outcomes) > 0) =>
                /\ Len(rsi'.gains) = rsi'.period
                /\ rsi'.rsi = RsiOf(RDiv(SumSeq(rsi'.gains), R(rsi'.period)),
                                    RDiv(SumSeq(rsi'.losses), R(rsi'.period)))
      ]_vars

\* C32: on a tick at which the price handler of one active strategy throws,
\* every other active strategy is in the state its own handler leaves it in
\* for that tick
C32_TickDispatchIsolated ==
    [][ (last'.act = "dispatch" /\ last'.thrower # "none") =>
          /\ (last'.thrower # "sma")  => sma'  = OnPriceUpdate("sma", last'.price).st
          /\ (last'.thrower # "rsi")  => rsi'  = OnPriceUpdate("rsi", last'.price).st
          /\ (last'.thrower # "macd") => macd' = OnPriceUpdate("macd", last'.price).st
      ]_vars

\* the RSI is strictly inside the neutral band (oversold + 10, overbought - 10)
InNeutralBand(st) ==
    /\ st.rsi # NULL
    /\ RLt(RAdd(st.oversoldThreshold, R(10)), st.rsi)
    /\ RLt(st.rsi, RSub(st.overboughtThreshold, R(10)))

C34_LedgerCounters ==
    [][ last'.act = "recordTrade" =>
          /\ perf'.totalTrades = perf'.buyTrades + perf'.sellTrades
          /\ perf'.winningTrades + perf'.losingTrades = perf'.sellTrades
          /\ RSub(perf'.grossProfit, perf'.grossLoss) = perf'.realizedPnL
          /\ perf'.totalTrades = perf.totalTrades + 1
          /\ last'.side = "BUY" =>
                /\ perf'.buyTrades = perf.buyTrades + 1
                /\ perf'.winningTrades = perf.winningTrades
                /\ perf'.losingTrades = perf.losingTrades
          /\ last'.side = "SELL" =>
                /\ perf'.sellTrades = perf.sellTrades + 1
                /\ perf'.winningTrades =
                      perf.winningTrades
                      + (IF RLt(Zero, LatestTrade(perf').realizedPnL) THEN 1 ELSE 0)
                /\ perf'.losingTrades =
                      perf.losingTrades
                      + (IF RLt(Zero, LatestTrade(perf').realizedPnL) THEN 0 ELSE 1)
      ]_vars

\* a winning sale followed by a sale with no open position: P&L zero, a loss
C34_Witness ==
    /\ last.act = "recordTrade"
    /\ last.side = "SELL"
    /\ perf.buyTrades = 1
    /\ perf.winningTrades = 1
    /\ perf.losingTrades = 1
    /\ RLt(Zero, perf.grossProfit)
    /\ LatestTrade(perf).realizedPnL = Zero

\* equity = realizedPnL + unrealizedPnL
Equity(pd) == RAdd(pd.realizedPnL, pd.unrealizedPnL)

RMax(x, y) == IF RLe(x, y) THEN y ELSE x

\* C35: at every recorded trade peakEquity is the highest equity of the
\* session so far (0 at its start) and maxDrawdown the largest distance from
\* the peak to the equity of a recording so far; both are >= 0 and neither
\* decreases while the session lasts
C35_MaxDrawdown ==
    [][ /\ RLe(Zero, perf'.maxDrawdown)
        /\ RLe(Zero, perf'.peakEquity)
        /\ perf'.totalTrades >= perf.totalTrades =>
              /\ RLe(perf.maxDrawdown, perf'.maxDrawdown)
              /\ RLe(perf.peakEquity, perf'.peakEquity)
        /\ perf'.totalTrades = perf.totalTrades + 1 =>
              /\ perf'.unrealizedPnL =
                    CalculateUnrealizedPnL(positions', [p \in Products |-> market'])
              /\ perf'.peakEquity = RMax(perf.peakEquity, Equity(perf'))
              /\ perf'.maxDrawdown =
                    RMax(perf.maxDrawdown, RSub(perf'.peakEquity, Equity(perf')))
      ]_vars

\* a sale below the peak: the equity, unrealized part included, is under the
\* peak reached before, and the drawdown is the distance between them
C35_Witness ==
    /\ RLt(Zero, perf.peakEquity)
    /\ RLt(Zero, perf.maxDrawdown)
    /\ perf.unrealizedPnL # Zero
    /\ perf.maxDrawdown = RSub(perf.peakEquity, Equity(perf))

\* the 'signal' events published for the trade signal `id`
PublishedFor(pub, id) == { i \in DOMAIN pub : pub[i].kind = "signal" /\ pub[i].id = id }

\* C36: a trade signal whose order the risk check rejects (insufficient funds
\* or balance) is published exactly once, in the turn of its tick, as a
\* failure; no execution of it is left pending, no order is placed for it, and
\* later steps start executions only for the signals of their own tick
C36_RejectedSignalEmittedOnce ==
    [][ /\ last'.act = "tick" =>
              \A i \in DOMAIN last'.outcomes :
                  last'.outcomes[i].outcome = "rejected" =>
                      /\ Cardinality(PublishedFor(published', last'.outcomes[i].id)) = 1
                      /\ \A k \in PublishedFor(published', last'.outcomes[i].id) :
                            /\ k > Len(published)
                            /\ published'[k].result = "failure"
                      /\ \A t \in pending' : t.id # last'.outcomes[i].id
        /\ \A t \in pending' \ pending : t.stage = "exec" => t.id > nextId
        /\ \A id \in 1..nextId' : Cardinality(PublishedFor(published', id)) <= 1
        /\ livePlaced' - livePlaced =
              Cardinality({ t \in pending' \ pending : t.stage = "exec" })
      ]_vars

\* a buy signal rejected for insufficient funds, published as a failure
C36_Witness ==
    /\ last.act = "tick"
    /\ Len(last.outcomes) = 1
    /\ last.outcomes[1].outcome = "rejected"
    /\ last.outcomes[1].type = "buy"
    /\ published[Len(published)] = PublishedSignal(nextId, "buy", "failure")
    /\ pending = {}

\* C37: (SMA) a price tick yields at most one crossover event and at most one
\* trade signal
C37_SmaOneSignalPerTick ==
    [][ (running = "sma" /\ last'.act = "tick") =>
          (last'.crossovers <= 1 /\ Len(last'.outcomes) <= 1) ]_vars

\* C38: the 'signal' events of the running strategy are published in the
\* order in which the signals were generated
C38_SignalsPublishedInOrder ==
    \A i, j \in DOMAIN published :
        (i < j /\ published[i].kind = "signal" /\ published[j].kind = "signal")
            => published[i].id < published[j].id

\* C39: (SMA, MACD) a trade enters the trade list of the strategy only for a
\* signal generated since the last session reset of updateParameters: the
\* signals generated since then are the last Len(sigLog) ones
C39_NoTradeFromBeforeReset ==
    [][ (running # "rsi" /\ last'.act = "exec" /\ Len(Trades') > Len(Trades)) =>
          last'.outcomes[1].id > nextId - Len(sigLog) ]_vars

\* C40: a startStrategy whose strategy.start() fails leaves the strategy out
\* of the active set and the ledger as it was; the active set only ever holds
\* registered names
C40_FailedStartLeavesNothing ==
    [][ /\ active' \subseteq Strategies
        /\ (last'.act = "start" /\ last'.error = "start failed") =>
              /\ last'.name \notin active'
              /\ active' = active
              /\ perf' = perf
              /\ positions' = positions
      ]_vars

====
